---- MODULE Spec2Model ----
(***************************************************************************)
(* Order lifecycle of the E-Menu application: the per-restaurant daily     *)
(* order counter (lib/order-number.ts), order placement on the public menu *)
(* page (MenuClient), status management on the owner's orders page         *)
(* (OrdersPage) and the customer's live status view (OrderStatusPage).     *)
(* Money is counted in integer cents; the clock shows a day and an hour.    *)
(***************************************************************************)
EXTENDS Integers, Sequences, FiniteSets, TLC

\* ---------------------------------------------------------------- bounds
NumPlacers == 2         \* browser tabs showing a public menu / callers of the counter
MaxDay == 2             \* calendar days (UTC) the clock runs through
MaxCalls == 3           \* invocations of getNextOrderNumber in the counter specification
MaxTxnAttempts == 2     \* attempts the store makes for one transaction before it gives up
MaxOrders == 3          \* orders the two customers of the placement specification attempt
MaxBoardOrders == 2     \* orders attempted in the orders page specification
MaxPageOrders == 1      \* orders attempted in the cart, owner and status view specifications
MaxQty == 2             \* largest quantity of one item a cart is taken to
MaxStatDay == 4         \* days the clock runs through in the statistics specification
MaxStatOrders == 2      \* orders attempted in the statistics specification
MaxMenuEdits == 3       \* submits and deletes the owner makes in the menu dashboard specification

Placers == 1..NumPlacers
Days == 1..MaxDay
Restaurants == {"R1", "R2"}
Items == {"item1", "item2"}
Categories == {"cat1", "cat2"}
\* what an owner submits in the form of item1: as it was, renamed, repriced and moved
ItemForms == {[name |-> "Bruschetta", price |-> 899, categoryId |-> "cat1"],
              [name |-> "Crostini", price |-> 899, categoryId |-> "cat1"],
              [name |-> "Bruschetta", price |-> 1550, categoryId |-> "cat2"]}
PriceList == {899, 1550}           \* prices an owner enters, in cents
Identifiers == {"", "14"}                 \* what a customer types as table number or name
Customers == {1, 2}                \* the tabs that place orders
Sessions == {1, 2}                 \* the owner's open orders pages
HoursPerDay == 24
MonthsPerYear == 12
SampleHours == {0, 23}              \* the hours of the day at which the clock is read

\* export type OrderStatus
OrderStatus == {"Received", "Ongoing", "Finishing", "On the Way", "Served", "Canceled"}

\* ---------------------------------------------------------------- state
VARIABLES
    now,                 \* the clock: the day
    hour,                \* the clock: the hour of the day
    counters,            \* collection orderCounters: key <<restaurantId, day>> -> document
    call,                \* per caller: the running invocation of getNextOrderNumber
    nCalls,              \* number of invocations of getNextOrderNumber so far
    issued,              \* history: per counter key, the numbers returned, in commit order
    orders,              \* collection orders: order id -> document
    menus,               \* collection menus: restaurant -> document (categories, menuItems)
    uuids,               \* number of uuidv4() values drawn so far
    restaurantId,        \* MenuClient prop, per tab
    order,               \* MenuClient state: the cart, per tab
    customerIdentifier,  \* MenuClient state
    isIdentifierDialog,  \* MenuClient state
    isPlacingOrder,      \* MenuClient state
    customerOrders,      \* MenuClient state, mirrored in localStorage
    placing,             \* the running handlePlaceOrder: what its closure holds
    navigatedTo,         \* 0 while the tab shows the menu, else the order id of router.push
    user,                \* DashboardLayout state: the owner the layout holds, per session
    auth,                \* the authentication provider: the signed-in owner, or none
    layout,              \* DashboardLayout: the other state of the layout, per session
    ordersPage,          \* OrdersPage state, per session
    statusPage,          \* OrderStatusPage state
    statsPage,           \* StatisticsPage state
    imageFlow,           \* generateImageFlow: the running invocation
    dashboard,           \* DashboardPage (menu) of one tab of R1's owner: state and pending saves
    progress             \* the loading progress of the orders pages and of the statistics page

counterVars == <<counters, call, nCalls, issued>>
storeVars == <<orders, menus>>
clientVars == <<order, customerIdentifier, isIdentifierDialog, isPlacingOrder,
                customerOrders, placing, navigatedTo>>
fixedVars == <<restaurantId, user, auth, layout>>
pageVars == <<ordersPage, statusPage, statsPage>>
ownerVars == <<imageFlow, dashboard, progress>>

vars == <<now, hour, counterVars, storeVars, uuids, clientVars, fixedVars, pageVars, ownerVars>>

\* The days the clock can show in any of the specifications.
ClockDays == 1..(IF MaxStatDay > MaxDay THEN MaxStatDay ELSE MaxDay)

Keys == Restaurants \X ClockDays

NoDoc == [exists |-> FALSE, count |-> 0]

IdleCall == [pc |-> "idle", rid |-> "R1", today |-> 1, snap |-> NoDoc,
             attempts |-> 0, result |-> 0]

IdlePlacing == [pc |-> "idle", orderId |-> 0, order |-> <<>>, orderTotal |-> 0,
                customerIdentifier |-> "", customerOrders |-> <<>>]

NoOrder == [id |-> 0]

\* ------------------------------------------------ lib/order-number.ts

\* const getTodayString = () => now.toISOString().split('T')[0]
getTodayString == now

\* doc(db, 'orderCounters', `${restaurantId}_${today}`)
counterRef(c) == <<call[c].rid, call[c].today>>

\* The update function handed to runTransaction: from the document it read,
\* the count it writes and the number it returns.
updateFunctionFromZero(counterDoc) ==
    IF ~counterDoc.exists THEN 0 ELSE counterDoc.count + 1

updateFunction(counterDoc) ==
    IF ~counterDoc.exists THEN 1 ELSE counterDoc.count + 1

\* getNextOrderNumber(restaurantId) is entered: today and counterRef are fixed,
\* the transaction starts with its first attempt.
StartCall(c, r) ==
    /\ call' = [call EXCEPT ![c] = [pc |-> "get", rid |-> r, today |-> getTodayString,
                                    snap |-> NoDoc, attempts |-> 0, result |-> 0]]
    /\ nCalls' = nCalls + 1

\* A direct invocation of the exported server action.
Invoke(c, r) ==
    /\ call[c].pc \in {"idle", "returned", "thrown"}
    /\ nCalls < MaxCalls
    /\ StartCall(c, r)
    /\ UNCHANGED <<ownerVars, now, hour, counters, issued, storeVars, uuids, clientVars, fixedVars, pageVars>>

\* const counterDoc = await transaction.get(counterRef)
TxnGet(c) ==
    /\ call[c].pc = "get"
    /\ call' = [call EXCEPT ![c].snap = counters[counterRef(c)], ![c].pc = "commit"]
    /\ UNCHANGED <<ownerVars, now, hour, counters, nCalls, issued, storeVars, uuids, clientVars, fixedVars,
                   pageVars>>

\* The attempt has run the update function; the store commits its write only if
\* the document is still as the attempt read it, otherwise the transaction is
\* retried from the read, and rejected when the attempts are used up.
TxnCommitBlind(c) ==
    /\ call[c].pc = "commit"
    /\ LET k == counterRef(c)
           n == updateFunction(call[c].snap)
       IN /\ counters' = [counters EXCEPT ![k] = [exists |-> TRUE, count |-> n]]
          /\ issued' = [issued EXCEPT ![k] = Append(@, n)]
          /\ call' = [call EXCEPT ![c].pc = "returned", ![c].result = n]
    /\ UNCHANGED <<ownerVars, now, hour, nCalls, storeVars, uuids, clientVars, fixedVars, pageVars>>

TxnCommit(c) ==
    /\ call[c].pc = "commit"
    /\ LET k == counterRef(c)
           n == updateFunction(call[c].snap)
       IN IF counters[k] = call[c].snap
          THEN /\ counters' = [counters EXCEPT ![k] = [exists |-> TRUE, count |-> n]]
               /\ issued' = [issued EXCEPT ![k] = Append(@, n)]
               /\ call' = [call EXCEPT ![c].pc = "returned", ![c].result = n]
          ELSE /\ call' = [call EXCEPT
                             ![c].attempts = @ + 1,
                             ![c].pc = IF call[c].attempts + 1 >= MaxTxnAttempts
                                       THEN "thrown" ELSE "get"]
               /\ UNCHANGED <<counters, issued>>
    /\ UNCHANGED <<ownerVars, now, hour, nCalls, storeVars, uuids, clientVars, fixedVars, pageVars>>

\* The store is unreachable: runTransaction rejects, the catch block rethrows
\* "Could not generate a new order number."
TxnUnavailable(c) ==
    /\ call[c].pc \in {"get", "commit"}
    /\ call' = [call EXCEPT ![c].pc = "thrown"]
    /\ UNCHANGED <<ownerVars, now, hour, counters, nCalls, issued, storeVars, uuids, clientVars, fixedVars,
                   pageVars>>

\* UTC midnight passes.
DayTick ==
    /\ now < MaxDay
    /\ now' = now + 1
    /\ UNCHANGED <<ownerVars, hour, counterVars, storeVars, uuids, clientVars, fixedVars, pageVars>>

\* ------------------------------------------------ MenuClient (public menu page)

RECURSIVE SumItems(_)
\* order.reduce((total, item) => total + item.price * item.quantity, 0)
SumItems(items) ==
    IF items = <<>> THEN 0
    ELSE SumItems(SubSeq(items, 1, Len(items) - 1))
         + items[Len(items)].price * items[Len(items)].quantity

orderTotal(p) == SumItems(order[p])

InCart(p, itemId) == \E i \in 1..Len(order[p]) : order[p][i].id = itemId

\* The menu page is interactive: it is shown, and no modal dialog covers it.
MenuShown(p) == navigatedTo[p] = 0 /\ ~isIdentifierDialog[p]

handleAddToOrder(p, itemId) ==
    /\ MenuShown(p)
    /\ itemId \in DOMAIN menus[restaurantId[p]].menuItems
    /\ \A i \in 1..Len(order[p]) : order[p][i].id = itemId => order[p][i].quantity < MaxQty
    /\ order' = [order EXCEPT ![p] =
           IF InCart(p, itemId)
           THEN [i \in 1..Len(@) |->
                    IF @[i].id = itemId THEN [@[i] EXCEPT !.quantity = @ + 1] ELSE @[i]]
           ELSE Append(@, [id |-> itemId, quantity |-> 1]
                              @@ menus[restaurantId[p]].menuItems[itemId])]
    /\ UNCHANGED <<ownerVars, now, hour, counterVars, storeVars, uuids, customerIdentifier, isIdentifierDialog,
                   isPlacingOrder, customerOrders, placing, navigatedTo, fixedVars, pageVars>>

handleUpdateQuantityKeepsZero(p, itemId, quantity) ==
    /\ MenuShown(p)
    /\ \E i \in 1..Len(order[p]) :
          /\ order[p][i].id = itemId
          /\ quantity \in {order[p][i].quantity - 1, order[p][i].quantity + 1, 0}
    /\ quantity <= MaxQty
    /\ order' = [order EXCEPT ![p] =
           IF quantity < 0
           THEN SelectSeq(@, LAMBDA item : item.id # itemId)
           ELSE [i \in 1..Len(@) |->
                    IF @[i].id = itemId THEN [@[i] EXCEPT !.quantity = quantity] ELSE @[i]]]
    /\ UNCHANGED <<ownerVars, now, hour, counterVars, storeVars, uuids, customerIdentifier, isIdentifierDialog,
                   isPlacingOrder, customerOrders, placing, navigatedTo, fixedVars, pageVars>>

\* The cart sheet calls it with quantity - 1, quantity + 1 or 0 for an item of the cart.
handleUpdateQuantity(p, itemId, quantity) ==
    /\ MenuShown(p)
    /\ \E i \in 1..Len(order[p]) :
          /\ order[p][i].id = itemId
          /\ quantity \in {order[p][i].quantity - 1, order[p][i].quantity + 1, 0}
    /\ quantity <= MaxQty
    /\ order' = [order EXCEPT ![p] =
           IF quantity <= 0
           THEN SelectSeq(@, LAMBDA item : item.id # itemId)
           ELSE [i \in 1..Len(@) |->
                    IF @[i].id = itemId THEN [@[i] EXCEPT !.quantity = quantity] ELSE @[i]]]
    /\ UNCHANGED <<ownerVars, now, hour, counterVars, storeVars, uuids, customerIdentifier, isIdentifierDialog,
                   isPlacingOrder, customerOrders, placing, navigatedTo, fixedVars, pageVars>>

\* "Place Order" in the cart sheet, rendered while order.length > 0.
openIdentifierDialog(p) ==
    /\ MenuShown(p)
    /\ Len(order[p]) > 0
    /\ isIdentifierDialog' = [isIdentifierDialog EXCEPT ![p] = TRUE]
    /\ UNCHANGED <<ownerVars, now, hour, counterVars, storeVars, uuids, order, customerIdentifier,
                   isPlacingOrder, customerOrders, placing, navigatedTo, fixedVars, pageVars>>

\* "Cancel" in the dialog.
closeIdentifierDialog(p) ==
    /\ navigatedTo[p] = 0
    /\ isIdentifierDialog[p]
    /\ isIdentifierDialog' = [isIdentifierDialog EXCEPT ![p] = FALSE]
    /\ UNCHANGED <<ownerVars, now, hour, counterVars, storeVars, uuids, order, customerIdentifier,
                   isPlacingOrder, customerOrders, placing, navigatedTo, fixedVars, pageVars>>

\* onChange of the dialog's input.
setCustomerIdentifier(p, value) ==
    /\ navigatedTo[p] = 0
    /\ isIdentifierDialog[p]
    /\ value # customerIdentifier[p]
    /\ customerIdentifier' = [customerIdentifier EXCEPT ![p] = value]
    /\ UNCHANGED <<ownerVars, now, hour, counterVars, storeVars, uuids, order, isIdentifierDialog,
                   isPlacingOrder, customerOrders, placing, navigatedTo, fixedVars, pageVars>>

handlePlaceOrderUnchecked(p) ==
    /\ navigatedTo[p] = 0
    /\ isIdentifierDialog[p]
    /\ ~isPlacingOrder[p]
    /\ isPlacingOrder' = [isPlacingOrder EXCEPT ![p] = TRUE]
    /\ uuids' = uuids + 1
    /\ placing' = [placing EXCEPT ![p] =
           [pc |-> "counter", orderId |-> uuids + 1, order |-> order[p],
            orderTotal |-> orderTotal(p), customerIdentifier |-> customerIdentifier[p],
            customerOrders |-> customerOrders[p]]]
    /\ StartCall(p, restaurantId[p])
    /\ UNCHANGED <<ownerVars, now, hour, counters, issued, storeVars, order, customerIdentifier,
                   isIdentifierDialog, customerOrders, navigatedTo, fixedVars, pageVars>>

\* handlePlaceOrder up to its first await: "Confirm Order" is enabled, the
\* identifier is not empty, the order id is drawn and getNextOrderNumber is called.
\* The closure keeps order, orderTotal, customerIdentifier and customerOrders of
\* the render it was created in.
handlePlaceOrder(p) ==
    /\ navigatedTo[p] = 0
    /\ isIdentifierDialog[p]
    /\ ~isPlacingOrder[p]
    /\ customerIdentifier[p] # ""
    /\ isPlacingOrder' = [isPlacingOrder EXCEPT ![p] = TRUE]
    /\ uuids' = uuids + 1
    /\ placing' = [placing EXCEPT ![p] =
           [pc |-> "counter", orderId |-> uuids + 1, order |-> order[p],
            orderTotal |-> orderTotal(p), customerIdentifier |-> customerIdentifier[p],
            customerOrders |-> customerOrders[p]]]
    /\ StartCall(p, restaurantId[p])
    /\ UNCHANGED <<ownerVars, now, hour, counters, issued, storeVars, order, customerIdentifier,
                   isIdentifierDialog, customerOrders, navigatedTo, fixedVars, pageVars>>

\* serverTimestamp(): the hours since the start of day 1
serverTimestamp == (now - 1) * HoursPerDay + hour

\* The day a timestamp lies in.
DayOf(ts) == ts \div HoursPerDay + 1

\* handlePlaceOrder when uuidv4() returns a value it has returned before.
handlePlaceOrderSameId(p) ==
    /\ navigatedTo[p] = 0
    /\ isIdentifierDialog[p]
    /\ ~isPlacingOrder[p]
    /\ customerIdentifier[p] # ""
    /\ isPlacingOrder' = [isPlacingOrder EXCEPT ![p] = TRUE]
    /\ uuids' = uuids + 1
    /\ \E orderId \in 1..uuids :
          placing' = [placing EXCEPT ![p] =
              [pc |-> "counter", orderId |-> orderId, order |-> order[p],
               orderTotal |-> orderTotal(p), customerIdentifier |-> customerIdentifier[p],
               customerOrders |-> customerOrders[p]]]
    /\ StartCall(p, restaurantId[p])
    /\ UNCHANGED <<ownerVars, now, hour, counters, issued, storeVars, order, customerIdentifier,
                   isIdentifierDialog, customerOrders, navigatedTo, fixedVars, pageVars>>

\* const { description, image, ...rest } = item
itemsToSave(items) ==
    [i \in 1..Len(items) |->
        [id |-> items[i].id, name |-> items[i].name, price |-> items[i].price,
         categoryId |-> items[i].categoryId, quantity |-> items[i].quantity]]

newOrderStatusOngoing == "Ongoing"

newOrderStatus == "Received"

\* newOrder with createdAt: serverTimestamp()
finalOrderOfCart(p) ==
    [restaurantId |-> restaurantId[p],
     items |-> itemsToSave(order[p]),
     total |-> placing[p].orderTotal,
     customerIdentifier |-> placing[p].customerIdentifier,
     status |-> newOrderStatus,
     orderNumber |-> call[p].result,
     createdAt |-> serverTimestamp]

finalOrder(p) ==
    [restaurantId |-> restaurantId[p],
     items |-> itemsToSave(placing[p].order),
     total |-> placing[p].orderTotal,
     customerIdentifier |-> placing[p].customerIdentifier,
     status |-> newOrderStatus,
     orderNumber |-> call[p].result,
     createdAt |-> serverTimestamp]

\* The part of handlePlaceOrder after the order write has succeeded.
PlaceOrderDone(p) ==
    /\ customerOrders' = [customerOrders EXCEPT ![p] =
                              Append(placing[p].customerOrders, placing[p].orderId)]
    /\ isIdentifierDialog' = [isIdentifierDialog EXCEPT ![p] = FALSE]
    /\ order' = [order EXCEPT ![p] = <<>>]
    /\ navigatedTo' = [navigatedTo EXCEPT ![p] = placing[p].orderId]
    /\ isPlacingOrder' = [isPlacingOrder EXCEPT ![p] = FALSE]
    /\ placing' = [placing EXCEPT ![p] = [IdlePlacing EXCEPT !.pc = "done",
                                                          !.orderId = placing[p].orderId]]

\* The catch and finally blocks of a handlePlaceOrder that empties the cart there.
PlaceOrderCaughtClearsCart(p) ==
    /\ isPlacingOrder' = [isPlacingOrder EXCEPT ![p] = FALSE]
    /\ placing' = [placing EXCEPT ![p] = [IdlePlacing EXCEPT !.pc = "failed",
                                                          !.orderId = placing[p].orderId]]
    /\ order' = [order EXCEPT ![p] = <<>>]
    /\ UNCHANGED <<customerIdentifier, isIdentifierDialog, customerOrders, navigatedTo>>

\* The catch and finally blocks of handlePlaceOrder.
PlaceOrderCaught(p) ==
    /\ isPlacingOrder' = [isPlacingOrder EXCEPT ![p] = FALSE]
    /\ placing' = [placing EXCEPT ![p] = [IdlePlacing EXCEPT !.pc = "failed",
                                                          !.orderId = placing[p].orderId]]
    /\ UNCHANGED <<order, customerIdentifier, isIdentifierDialog, customerOrders, navigatedTo>>

\* getNextOrderNumber returned: await setDoc(doc(db, "orders", orderId), finalOrder)
\* succeeds, and the handler runs to its end.
PlaceOrderWrite(p) ==
    /\ placing[p].pc = "counter"
    /\ call[p].pc = "returned"
    /\ orders' = (placing[p].orderId :> finalOrder(p)) @@ orders
    /\ PlaceOrderDone(p)
    /\ UNCHANGED <<ownerVars, now, hour, counterVars, menus, uuids, customerIdentifier, fixedVars, pageVars>>

\* getNextOrderNumber returned, setDoc rejects.
PlaceOrderWriteFailed(p) ==
    /\ placing[p].pc = "counter"
    /\ call[p].pc = "returned"
    /\ PlaceOrderCaught(p)
    /\ UNCHANGED <<ownerVars, now, hour, counterVars, storeVars, uuids, fixedVars, pageVars>>

\* getNextOrderNumber threw.
PlaceOrderCounterFailedButWrites(p) ==
    /\ placing[p].pc = "counter"
    /\ call[p].pc = "thrown"
    /\ orders' = (placing[p].orderId :> finalOrder(p)) @@ orders
    /\ PlaceOrderCaught(p)
    /\ UNCHANGED <<ownerVars, now, hour, counterVars, menus, uuids, fixedVars, pageVars>>

PlaceOrderCounterFailed(p) ==
    /\ placing[p].pc = "counter"
    /\ call[p].pc = "thrown"
    /\ PlaceOrderCaught(p)
    /\ UNCHANGED <<ownerVars, now, hour, counterVars, storeVars, uuids, fixedVars, pageVars>>

\* The customer comes back from the status page: MenuClient mounts afresh and
\* reads customerOrders from localStorage.
returnToMenu(p) ==
    /\ navigatedTo[p] # 0
    /\ navigatedTo' = [navigatedTo EXCEPT ![p] = 0]
    /\ customerIdentifier' = [customerIdentifier EXCEPT ![p] = ""]
    /\ UNCHANGED <<ownerVars, now, hour, counterVars, storeVars, uuids, order, isIdentifierDialog,
                   isPlacingOrder, customerOrders, placing, fixedVars, pageVars>>

\* ------------------------------------------------ dashboard: menu items

\* saveData: setDoc(menuDocRef, { categories, menuItems }, { merge: true })
saveData(r, currentCategories, currentMenuItems) ==
    menus' = [menus EXCEPT ![r] = [categories |-> currentCategories,
                                   menuItems |-> currentMenuItems]]

\* handleMenuItemSubmit with editingMenuItem set: { ...item, ...values, image }
\* replaces the item, and the menu document is saved.
handleMenuItemSubmitAndOrders(r, itemId, values) ==
    /\ itemId \in DOMAIN menus[r].menuItems
    /\ values.categoryId \in DOMAIN menus[r].categories
    /\ [menus[r].menuItems[itemId] EXCEPT !.name = values.name, !.price = values.price,
                                          !.categoryId = values.categoryId]
           # menus[r].menuItems[itemId]
    /\ saveData(r, menus[r].categories,
                [menus[r].menuItems EXCEPT ![itemId] =
                    [@ EXCEPT !.name = values.name, !.price = values.price,
                              !.categoryId = values.categoryId]])
    /\ orders' = [id \in DOMAIN orders |->
                    [orders[id] EXCEPT !.items =
                        [i \in 1..Len(@) |->
                            IF @[i].id = itemId /\ orders[id].restaurantId = r
                            THEN [@[i] EXCEPT !.name = values.name, !.price = values.price]
                            ELSE @[i]]]]
    /\ UNCHANGED <<ownerVars, now, hour, counterVars, uuids, clientVars, fixedVars, pageVars>>

handleMenuItemSubmit(r, itemId, values) ==
    /\ itemId \in DOMAIN menus[r].menuItems
    /\ values.categoryId \in DOMAIN menus[r].categories
    /\ [menus[r].menuItems[itemId] EXCEPT !.name = values.name, !.price = values.price,
                                          !.categoryId = values.categoryId]
           # menus[r].menuItems[itemId]
    /\ saveData(r, menus[r].categories,
                [menus[r].menuItems EXCEPT ![itemId] =
                    [@ EXCEPT !.name = values.name, !.price = values.price,
                              !.categoryId = values.categoryId]])
    /\ UNCHANGED <<ownerVars, now, hour, counterVars, orders, uuids, clientVars, fixedVars, pageVars>>

\* The form of an item with another price.
withPrice(r, itemId, price) ==
    [name |-> menus[r].menuItems[itemId].name, price |-> price,
     categoryId |-> menus[r].menuItems[itemId].categoryId]

\* handleCategorySubmit with editingCategory set: the category is renamed.
handleCategorySubmit(r, categoryId, name) ==
    /\ categoryId \in DOMAIN menus[r].categories
    /\ name # menus[r].categories[categoryId]
    /\ saveData(r, [menus[r].categories EXCEPT ![categoryId] = name], menus[r].menuItems)
    /\ UNCHANGED <<ownerVars, now, hour, counterVars, orders, uuids, clientVars, fixedVars, pageVars>>

\* handleDelete with itemToDelete.type === "menuItem"
handleDelete(r, itemId) ==
    /\ itemId \in DOMAIN menus[r].menuItems
    /\ saveData(r, menus[r].categories,
                [i \in DOMAIN menus[r].menuItems \ {itemId} |-> menus[r].menuItems[i]])
    /\ UNCHANGED <<ownerVars, now, hour, counterVars, orders, uuids, clientVars, fixedVars, pageVars>>

\* handleDelete with itemToDelete.type === "category": the category and its items go.
handleDeleteCategory(r, categoryId) ==
    /\ categoryId \in DOMAIN menus[r].categories
    /\ saveData(r, [c \in DOMAIN menus[r].categories \ {categoryId} |-> menus[r].categories[c]],
                [i \in {j \in DOMAIN menus[r].menuItems :
                           menus[r].menuItems[j].categoryId # categoryId}
                    |-> menus[r].menuItems[i]])
    /\ UNCHANGED <<ownerVars, now, hour, counterVars, orders, uuids, clientVars, fixedVars, pageVars>>

\* ------------------------------------------------ dashboard: the menu page of a tab
\* ids uuidv4() can return for a new category and a new menu item
NewCategoryId == "cat3"
NewItemId == "item3"

\* what the owner enters for a new item
NewItemValues(categoryId) ==
    [name |-> "Soup", description |-> "", price |-> 899, categoryId |-> categoryId,
     image |-> "placehold.co"]

\* loadData has read the menu document: setCategories, setMenuItems,
\* setMenuLoading(false). saved keeps the menus the tab has seen persisted.
loadedDashboard(menu) ==
    [categories |-> menu.categories, menuItems |-> menu.menuItems, isSaving |-> FALSE,
     pending |-> <<>>, minted |-> {}, edits |-> 0, toast |-> "",
     saved |-> {[categories |-> menu.categories, menuItems |-> menu.menuItems]}]

\* A handler has computed the updated lists from the state of its render and
\* awaits saveData(updatedCategories, updatedMenuItems).
awaitSaveData(handler, updatedCategories, updatedMenuItems) ==
    [dashboard EXCEPT
        !.pending = Append(@, [handler |-> handler, categories |-> updatedCategories,
                               menuItems |-> updatedMenuItems]),
        !.edits = @ + 1]

\* handleCategorySubmit with editingCategory set, up to its await; the submit
\* button is disabled while isSaving.
categorySubmitEdit(categoryId, name) ==
    /\ dashboard.edits < MaxMenuEdits
    /\ ~dashboard.isSaving
    /\ categoryId \in DOMAIN dashboard.categories
    /\ dashboard' = [awaitSaveData("category",
                                   [dashboard.categories EXCEPT ![categoryId] = name],
                                   dashboard.menuItems)
                        EXCEPT !.isSaving = TRUE]
    /\ UNCHANGED <<imageFlow, progress, now, hour, counterVars, storeVars, uuids, clientVars, fixedVars,
                   pageVars>>

\* handleCategorySubmit without editingCategory: { id: uuidv4(), ...values } is appended.
categorySubmitNew(name) ==
    /\ dashboard.edits < MaxMenuEdits
    /\ ~dashboard.isSaving
    /\ NewCategoryId \notin dashboard.minted
    /\ dashboard' = [awaitSaveData("category",
                                   (NewCategoryId :> name) @@ dashboard.categories,
                                   dashboard.menuItems)
                        EXCEPT !.isSaving = TRUE, !.minted = @ \cup {NewCategoryId}]
    /\ UNCHANGED <<imageFlow, progress, now, hour, counterVars, storeVars, uuids, clientVars, fixedVars,
                   pageVars>>

\* handleMenuItemSubmit with editingMenuItem set, up to its await; the category
\* is one of the options of the select, the categories of the render.
menuItemSubmitEdit(itemId, values) ==
    /\ dashboard.edits < MaxMenuEdits
    /\ ~dashboard.isSaving
    /\ itemId \in DOMAIN dashboard.menuItems
    /\ values.categoryId \in DOMAIN dashboard.categories
    /\ dashboard' = [awaitSaveData("menuItem",
                                   dashboard.categories,
                                   [dashboard.menuItems EXCEPT ![itemId] =
                                       [@ EXCEPT !.name = values.name, !.price = values.price,
                                                 !.categoryId = values.categoryId]])
                        EXCEPT !.isSaving = TRUE]
    /\ UNCHANGED <<imageFlow, progress, now, hour, counterVars, storeVars, uuids, clientVars, fixedVars,
                   pageVars>>

\* handleMenuItemSubmit without editingMenuItem: { id: uuidv4(), ...values, image }
\* is appended; "Add Item" is disabled while there is no category.
menuItemSubmitNew(categoryId) ==
    /\ dashboard.edits < MaxMenuEdits
    /\ ~dashboard.isSaving
    /\ NewItemId \notin dashboard.minted
    /\ categoryId \in DOMAIN dashboard.categories
    /\ dashboard' = [awaitSaveData("menuItem",
                                   dashboard.categories,
                                   (NewItemId :> NewItemValues(categoryId)) @@ dashboard.menuItems)
                        EXCEPT !.isSaving = TRUE, !.minted = @ \cup {NewItemId}]
    /\ UNCHANGED <<imageFlow, progress, now, hour, counterVars, storeVars, uuids, clientVars, fixedVars,
                   pageVars>>

\* handleDelete up to its await, itemToDelete being a menu item or a category of
\* the render; clicking the action closes the alert dialog, isSaving is not set.
deleteConfirmed(type, id) ==
    /\ dashboard.edits < MaxMenuEdits
    /\ \/ /\ type = "menuItem"
          /\ id \in DOMAIN dashboard.menuItems
          /\ dashboard' = awaitSaveData("delete",
                              dashboard.categories,
                              [i \in DOMAIN dashboard.menuItems \ {id} |-> dashboard.menuItems[i]])
       \/ /\ type = "category"
          /\ id \in DOMAIN dashboard.categories
          /\ dashboard' = awaitSaveData("delete",
                              [c \in DOMAIN dashboard.categories \ {id} |-> dashboard.categories[c]],
                              [i \in {j \in DOMAIN dashboard.menuItems :
                                         dashboard.menuItems[j].categoryId # id}
                                  |-> dashboard.menuItems[i]])
    /\ UNCHANGED <<imageFlow, progress, now, hour, counterVars, storeVars, uuids, clientVars, fixedVars,
                   pageVars>>

\* The oldest pending setDoc is acknowledged: the menu document is overwritten,
\* and the handler sets the state it computed: setCategories in
\* handleCategorySubmit, setMenuItems in handleMenuItemSubmit, both in handleDelete.
\* The submit handlers call setIsSaving(false) in their finally block,
\* handleDelete does not.
saveDataResolves ==
    /\ dashboard.pending # <<>>
    /\ LET h == Head(dashboard.pending)
       IN /\ saveData("R1", h.categories, h.menuItems)
          /\ dashboard' = [dashboard EXCEPT
                !.pending = Tail(@),
                !.categories = IF h.handler = "menuItem" THEN @ ELSE h.categories,
                !.menuItems = IF h.handler = "category" THEN @ ELSE h.menuItems,
                !.isSaving = IF h.handler = "delete" THEN @ ELSE FALSE,
                !.toast = "saved",
                !.saved = @ \cup {[categories |-> h.categories, menuItems |-> h.menuItems]}]
    /\ UNCHANGED <<imageFlow, progress, now, hour, counterVars, orders, uuids, clientVars, fixedVars,
                   pageVars>>

\* The oldest pending setDoc is rejected: saveData shows its toast and rethrows,
\* the handler's catch block is empty.
saveDataRejects ==
    /\ dashboard.pending # <<>>
    /\ dashboard' = [dashboard EXCEPT
          !.pending = Tail(@),
          !.isSaving = IF Head(dashboard.pending).handler = "delete" THEN @ ELSE FALSE,
          !.toast = "Could not save data"]
    /\ UNCHANGED <<imageFlow, progress, now, hour, counterVars, storeVars, uuids, clientVars, fixedVars,
                   pageVars>>

\* ------------------------------------------------ DashboardLayout (owner's pages)

\* null as the user of onAuthStateChanged
NoUser == ""

\* The layout after mounting, before the first call of its auth observer; "none"
\* stands for no call yet.
mountLayout ==
    [pathname |-> "/dashboard", loading |-> TRUE, seen |-> "none", pendingOrderCount |-> 0]

\* The tab after router.push('/login'): the layout and its pages are unmounted.
loginPage ==
    [pathname |-> "/login", loading |-> TRUE, seen |-> "none", pendingOrderCount |-> 0]

\* The orders page while the layout holds no user, and after unmounting.
idleOrdersPage == [orders |-> <<>>, ordersLoading |-> TRUE, live |-> FALSE]

\* if (loading) return <p>Loading...</p>; otherwise the sidebar and {children}.
ContentRendered(s) == layout[s].pathname = "/dashboard" /\ ~layout[s].loading

\* The observer of onAuthStateChanged is called with the provider's user, at first
\* and whenever it has changed. With a user: setUser, the profile is fetched,
\* setLoading(false), and the effects on [user] of the layout and the orders page
\* subscribe anew. With none: router.push('/login').
AuthStateChangedKeepsPage(s) ==
    /\ layout[s].pathname = "/dashboard"
    /\ layout[s].seen # auth
    /\ IF auth # NoUser
       THEN /\ user' = [user EXCEPT ![s] = auth]
            /\ layout' = [layout EXCEPT ![s].seen = auth, ![s].loading = FALSE]
            /\ ordersPage' = [ordersPage EXCEPT ![s] =
                                 IF user[s] = auth THEN @
                                 ELSE [@ EXCEPT !.ordersLoading = TRUE, !.live = TRUE]]
       ELSE /\ layout' = [layout EXCEPT ![s].seen = auth, ![s].loading = FALSE]
            /\ UNCHANGED <<user, ordersPage>>
    /\ UNCHANGED <<ownerVars, now, hour, counterVars, storeVars, uuids, clientVars, restaurantId, auth,
                   statusPage, statsPage>>

AuthStateChanged(s) ==
    /\ layout[s].pathname = "/dashboard"
    /\ layout[s].seen # auth
    /\ IF auth # NoUser
       THEN /\ user' = [user EXCEPT ![s] = auth]
            /\ layout' = [layout EXCEPT ![s].seen = auth, ![s].loading = FALSE]
            /\ ordersPage' = [ordersPage EXCEPT ![s] =
                                 IF user[s] = auth THEN @
                                 ELSE [@ EXCEPT !.ordersLoading = TRUE, !.live = TRUE]]
       ELSE /\ user' = [user EXCEPT ![s] = NoUser]
            /\ layout' = [layout EXCEPT ![s] = loginPage]
            /\ ordersPage' = [ordersPage EXCEPT ![s] = idleOrdersPage]
    /\ UNCHANGED <<ownerVars, now, hour, counterVars, storeVars, uuids, clientVars, restaurantId, auth,
                   statusPage, statsPage>>

\* Logout in the header's menu: await signOut(auth); router.push('/login').
handleLogout(s) ==
    /\ ContentRendered(s)
    /\ auth' = NoUser
    /\ user' = [user EXCEPT ![s] = NoUser]
    /\ layout' = [layout EXCEPT ![s] = loginPage]
    /\ ordersPage' = [ordersPage EXCEPT ![s] = idleOrdersPage]
    /\ UNCHANGED <<ownerVars, now, hour, counterVars, storeVars, uuids, clientVars, restaurantId,
                   statusPage, statsPage>>

\* The owner of restaurant uid signs in on the login page: router.push("/dashboard"),
\* and the layout mounts.
handleLogin(s, uid) ==
    /\ layout[s].pathname = "/login"
    /\ auth' = uid
    /\ layout' = [layout EXCEPT ![s] = mountLayout]
    /\ UNCHANGED <<ownerVars, now, hour, counterVars, storeVars, uuids, clientVars, restaurantId, user,
                   pageVars>>

\* ------------------------------------------------ OrdersPage (owner's orders page)

\* { id: doc.id, ...doc.data() }
docWithId(id) == [id |-> id] @@ orders[id]

RECURSIVE queryDocs(_, _)
\* snapshot.docs of query(collection(db, 'orders'), where('restaurantId', '==', uid)):
\* the matching documents with id <= n, in document order.
queryDocs(uid, n) ==
    IF n = 0 THEN <<>>
    ELSE IF n \in DOMAIN orders /\ orders[n].restaurantId = uid
         THEN Append(queryDocs(uid, n - 1), docWithId(n))
         ELSE queryDocs(uid, n - 1)

RECURSIVE insertByDate(_, _)
insertByDate(sorted, o) ==
    IF sorted = <<>> THEN <<o>>
    ELSE IF Head(sorted).createdAt >= o.createdAt
         THEN <<Head(sorted)>> \o insertByDate(Tail(sorted), o)
         ELSE <<o>> \o sorted

RECURSIVE sortByDateDesc(_)
\* fetchedOrders.sort((a, b) => dateB - dateA), a stable sort
sortByDateDesc(list) ==
    IF list = <<>> THEN <<>>
    ELSE insertByDate(sortByDateDesc(SubSeq(list, 1, Len(list) - 1)), list[Len(list)])

\* The snapshot callback of the orders query.
OrdersSnapshot(s) ==
    /\ ordersPage[s].live
    /\ ordersPage' = [ordersPage EXCEPT
                        ![s].orders = sortByDateDesc(queryDocs(user[s], uuids)),
                        ![s].ordersLoading = FALSE]
    /\ ordersPage' # ordersPage
    /\ UNCHANGED <<ownerVars, now, hour, counterVars, storeVars, uuids, clientVars, fixedVars, statusPage, statsPage>>

\* The error callback of the orders query; the listener is cancelled by the store.
OrdersSnapshotError(s) ==
    /\ ordersPage[s].live
    /\ ordersPage' = [ordersPage EXCEPT ![s].live = FALSE, ![s].ordersLoading = FALSE]
    /\ UNCHANGED <<ownerVars, now, hour, counterVars, storeVars, uuids, clientVars, fixedVars, statusPage, statsPage>>

activeOrdersNotServed(s) ==
    SelectSeq(ordersPage[s].orders, LAMBDA o : o.status # "Served")

activeOrders(s) ==
    SelectSeq(ordersPage[s].orders, LAMBDA o : o.status # "Served" /\ o.status # "Canceled")

pastOrders(s) ==
    SelectSeq(ordersPage[s].orders, LAMBDA o : o.status = "Served" \/ o.status = "Canceled")

handleStatusChangeLosesItems(s, orderId, newStatus) ==
    /\ ContentRendered(s)
    /\ ~ordersPage[s].ordersLoading
    /\ \E i \in 1..Len(activeOrders(s)) :
          /\ activeOrders(s)[i].id = orderId
          /\ activeOrders(s)[i].status # newStatus
    /\ orders' = [orders EXCEPT ![orderId] =
                      [@ EXCEPT !.status = newStatus, !.items = <<>>, !.total = 0]]
    /\ ordersPage' = [ordersPage EXCEPT ![s].orders =
            IF ordersPage[s].live
            THEN [i \in 1..Len(@) |->
                     IF @[i].id = orderId THEN [@[i] EXCEPT !.status = newStatus] ELSE @[i]]
            ELSE @]
    /\ UNCHANGED <<ownerVars, now, hour, counterVars, menus, uuids, clientVars, fixedVars, statusPage,
                   statsPage>>

handleStatusChangeFromActive(s, orderId, newStatus) ==
    /\ ContentRendered(s)
    /\ ~ordersPage[s].ordersLoading
    /\ \E i \in 1..Len(activeOrders(s)) :
          /\ activeOrders(s)[i].id = orderId
          /\ activeOrders(s)[i].status # newStatus
    /\ orders[orderId].status # "Served" /\ orders[orderId].status # "Canceled"
    /\ orders' = [orders EXCEPT ![orderId].status = newStatus]
    /\ ordersPage' = [ordersPage EXCEPT ![s].orders =
            IF ordersPage[s].live
            THEN [i \in 1..Len(@) |->
                     IF @[i].id = orderId THEN [@[i] EXCEPT !.status = newStatus] ELSE @[i]]
            ELSE @]
    /\ UNCHANGED <<ownerVars, now, hour, counterVars, menus, uuids, clientVars, fixedVars, statusPage,
                   statsPage>>

\* The status select of a card, rendered for the orders of activeOrders once the
\* page has loaded; updateDoc(orderRef, { status: newStatus }) succeeds. The
\* session's own listener, while it is live, is called at once with the local
\* write; other sessions see it with their next snapshot.
handleStatusChange(s, orderId, newStatus) ==
    /\ ContentRendered(s)
    /\ ~ordersPage[s].ordersLoading
    /\ \E i \in 1..Len(activeOrders(s)) :
          /\ activeOrders(s)[i].id = orderId
          /\ activeOrders(s)[i].status # newStatus    \* onValueChange: another value than shown
    /\ orders' = [orders EXCEPT ![orderId].status = newStatus]
    /\ ordersPage' = [ordersPage EXCEPT ![s].orders =
            IF ordersPage[s].live
            THEN [i \in 1..Len(@) |->
                     IF @[i].id = orderId THEN [@[i] EXCEPT !.status = newStatus] ELSE @[i]]
            ELSE @]
    /\ UNCHANGED <<ownerVars, now, hour, counterVars, menus, uuids, clientVars, fixedVars, statusPage, statsPage>>

\* ------------------------------------------------ DashboardLayout: the badge

\* snapshot.docs.filter(doc => status !== 'Served' && status !== 'Canceled').length
\* over the documents of the layout's query where('restaurantId', '==', user.uid)
pendingOrdersNotServed(uid) ==
    Len(SelectSeq(queryDocs(uid, uuids), LAMBDA o : o.status # "Served"))

pendingOrders(uid) ==
    Len(SelectSeq(queryDocs(uid, uuids),
                  LAMBDA o : o.status # "Served" /\ o.status # "Canceled"))

\* The snapshot callback of the layout's orders query: setPendingOrderCount.
PendingSnapshot(s) ==
    /\ layout[s].pathname = "/dashboard"
    /\ user[s] # NoUser
    /\ layout[s].pendingOrderCount # pendingOrders(user[s])
    /\ layout' = [layout EXCEPT ![s].pendingOrderCount = pendingOrders(user[s])]
    /\ UNCHANGED <<ownerVars, now, hour, counterVars, storeVars, uuids, clientVars, restaurantId, user,
                   auth, pageVars>>

\* item.badge && <SidebarMenuBadge>: the number in the badge, 0 for no badge.
badge(s) == IF ContentRendered(s) THEN layout[s].pendingOrderCount ELSE 0

\* ------------------------------------------------ OrderStatusPage (customer's status view)

NoError == ""
NoOrderIdError == "No order ID provided."
NotFoundError == "Order not found. It may have been deleted."
LoadFailedError == "Could not load order status."

TOTAL_STEPS == 5

statusMapShifted ==
    [st \in OrderStatus |->
        CASE st = "Received" -> 0
          [] st = "Ongoing" -> 1
          [] st = "Finishing" -> 2
          [] st = "On the Way" -> 3
          [] st = "Served" -> 4
          [] st = "Canceled" -> 5]

\* statusMap[status].step
statusMap ==
    [st \in OrderStatus |->
        CASE st = "Received" -> 1
          [] st = "Ongoing" -> 2
          [] st = "Finishing" -> 3
          [] st = "On the Way" -> 4
          [] st = "Served" -> 5
          [] st = "Canceled" -> 0]

\* const currentStatusInfo = order ? statusMap[order.status] : null (0 stands for null)
currentStep == IF statusPage.order # NoOrder THEN statusMap[statusPage.order.status] ELSE 0

\* (currentStatusInfo.step / TOTAL_STEPS) * 100
progressPercentage ==
    IF statusPage.order # NoOrder THEN (currentStep * 100) \div TOTAL_STEPS ELSE 0

\* Which of its four returns the component renders.
Screen ==
    IF statusPage.loading THEN "loading"
    ELSE IF statusPage.error # NoError THEN "error"
    ELSE IF statusPage.order = NoOrder THEN "null"
    ELSE "status"

\* {!isCanceled && (<Progress value={progressPercentage} />)}
ProgressShown == Screen = "status" /\ ~(statusPage.order.status = "Canceled")

\* What the listener of the order document would be handed now: the document,
\* or NoOrder for a snapshot with exists() false.
currentDoc ==
    IF statusPage.orderId \in DOMAIN orders THEN docWithId(statusPage.orderId) ELSE NoOrder

\* No snapshot has been handed to the listener yet.
NoSnapshot == [id |-> -1]

\* The snapshot callback of the order document, called with the first snapshot of
\* a subscription and then once per change of the document. With an order and no
\* profile yet it awaits getDoc of the restaurant's profile, which finds it, finds
\* none, or rejects (and then the callback ends before setLoading(false)). A
\* profile that was set re-runs the effect: the listener is replaced by a new
\* one, whose first snapshot is still to come.
StatusSnapshotKeepsLoading(profileDoc) ==
    /\ statusPage.live
    /\ currentDoc # statusPage.delivered
    /\ IF statusPage.orderId \in DOMAIN orders
       THEN statusPage' = [statusPage EXCEPT
                !.order = currentDoc,
                !.profile = @ \/ profileDoc = "found",
                !.loading = IF ~statusPage.profile /\ profileDoc = "rejects" THEN @ ELSE FALSE,
                !.delivered = IF ~statusPage.profile /\ profileDoc = "found"
                              THEN NoSnapshot ELSE currentDoc]
       ELSE statusPage' = [statusPage EXCEPT !.error = NotFoundError, !.delivered = currentDoc]
    /\ UNCHANGED <<ownerVars, now, hour, counterVars, storeVars, uuids, clientVars, fixedVars, ordersPage, statsPage>>

StatusSnapshot(profileDoc) ==
    /\ statusPage.live
    /\ currentDoc # statusPage.delivered
    /\ IF statusPage.orderId \in DOMAIN orders
       THEN statusPage' = [statusPage EXCEPT
                !.order = currentDoc,
                !.profile = @ \/ profileDoc = "found",
                !.loading = IF ~statusPage.profile /\ profileDoc = "rejects" THEN @ ELSE FALSE,
                !.delivered = IF ~statusPage.profile /\ profileDoc = "found"
                              THEN NoSnapshot ELSE currentDoc]
       ELSE statusPage' = [statusPage EXCEPT !.error = NotFoundError, !.loading = FALSE,
                                             !.delivered = currentDoc]
    /\ UNCHANGED <<ownerVars, now, hour, counterVars, storeVars, uuids, clientVars, fixedVars, ordersPage, statsPage>>

\* The error callback of the order document; the listener is cancelled by the store.
StatusSnapshotErrorKeepsLoading ==
    /\ statusPage.live
    /\ statusPage' = [statusPage EXCEPT !.error = LoadFailedError, !.live = FALSE]
    /\ UNCHANGED <<ownerVars, now, hour, counterVars, storeVars, uuids, clientVars, fixedVars, ordersPage, statsPage>>

StatusSnapshotError ==
    /\ statusPage.live
    /\ statusPage' = [statusPage EXCEPT !.error = LoadFailedError, !.loading = FALSE,
                                        !.live = FALSE]
    /\ UNCHANGED <<ownerVars, now, hour, counterVars, storeVars, uuids, clientVars, fixedVars, ordersPage, statsPage>>

\* ------------------------------------------------ StatisticsPage (owner's statistics)

\* type Timeframe
Timeframe == {"day", "month", "year"}

\* The calendar date of the days the clock shows: 31 Dec 2024, 28 Feb 2025,
\* 1 Apr 2025, 30 Apr 2025, and from then on the days of May 2025. Months are
\* counted from 0 as Date.getMonth() does.
CalendarDate(d) ==
    CASE d = 1 -> [year |-> 2024, month |-> 11, date |-> 31]
      [] d = 2 -> [year |-> 2025, month |-> 1, date |-> 28]
      [] d = 3 -> [year |-> 2025, month |-> 3, date |-> 1]
      [] d = 4 -> [year |-> 2025, month |-> 3, date |-> 30]
      [] OTHER -> [year |-> 2025, month |-> 4, date |-> d - 4]

\* Timestamp.toDate(): the local date and time of a timestamp.
toDate(ts) ==
    [year |-> CalendarDate(DayOf(ts)).year, month |-> CalendarDate(DayOf(ts)).month,
     date |-> CalendarDate(DayOf(ts)).date, hours |-> ts % HoursPerDay]

\* new Date()
newDate == toDate(serverTimestamp)

\* a.getTime() <= b.getTime()
notAfter(a, b) ==
    \/ a.year < b.year
    \/ a.year = b.year /\ a.month < b.month
    \/ a.year = b.year /\ a.month = b.month /\ a.date < b.date
    \/ a.year = b.year /\ a.month = b.month /\ a.date = b.date /\ a.hours <= b.hours

startOfToday == [newDate EXCEPT !.hours = 0]
startOfMonth(d) == [d EXCEPT !.date = 1, !.hours = 0]
startOfYear(d) == [d EXCEPT !.month = 0, !.date = 1, !.hours = 0]

isWithinInterval(d, interval) == notAfter(interval.start, d) /\ notAfter(d, interval.end)

\* new Date(now.getFullYear(), now.getMonth() + 1, 0).getDate()
daysInMonth(d) ==
    IF d.month \in {0, 2, 4, 6, 7, 9, 11} THEN 31
    ELSE IF d.month \in {3, 5, 8, 10} THEN 30
    ELSE IF d.year % 4 = 0 /\ (d.year % 100 # 0 \/ d.year % 400 = 0) THEN 29 ELSE 28

\* The useMemo of filteredOrders, evaluated now.
filteredOrders(allOrders, timeframe) ==
    LET interval ==
            IF timeframe = "day" THEN [start |-> startOfToday, end |-> newDate]
            ELSE IF timeframe = "month" THEN [start |-> startOfMonth(newDate), end |-> newDate]
            ELSE [start |-> startOfYear(newDate), end |-> newDate]
    IN SelectSeq(allOrders, LAMBDA o : isWithinInterval(toDate(o.createdAt), interval))

RECURSIVE sumTotal(_)
\* filteredOrders.reduce((sum, order) => sum + order.total, 0)
sumTotal(list) ==
    IF list = <<>> THEN 0 ELSE sumTotal(SubSeq(list, 1, Len(list) - 1)) + list[Len(list)].total

\* The quotient a / b of two numbers, kept as a fraction; b = 0 gives no number.
Quotient(a, b) == [num |-> a, den |-> b]

\* The useMemo of stats, a function of the filteredOrders the page holds.
statsOfAllOrders ==
    LET totalRevenue == sumTotal(statsPage.allOrders)
        totalOrders == Len(statsPage.filteredOrders)
    IN [totalRevenue |-> totalRevenue,
        totalOrders |-> totalOrders,
        averageOrderValue |-> IF totalOrders > 0 THEN Quotient(totalRevenue, totalOrders)
                              ELSE Quotient(0, 1)]

stats ==
    LET totalRevenue == sumTotal(statsPage.filteredOrders)
        totalOrders == Len(statsPage.filteredOrders)
    IN [totalRevenue |-> totalRevenue,
        totalOrders |-> totalOrders,
        averageOrderValue |-> IF totalOrders > 0 THEN Quotient(totalRevenue, totalOrders)
                              ELSE Quotient(0, 1)]

\* The index of the bucket an order is added to: getHours(), getDate() - 1, getMonth().
bucketIndexOfDate(o, timeframe) ==
    IF timeframe = "day" THEN toDate(o.createdAt).hours
    ELSE IF timeframe = "month" THEN toDate(o.createdAt).date
    ELSE toDate(o.createdAt).month

bucketIndex(o, timeframe) ==
    IF timeframe = "day" THEN toDate(o.createdAt).hours
    ELSE IF timeframe = "month" THEN toDate(o.createdAt).date - 1
    ELSE toDate(o.createdAt).month

RECURSIVE addRevenue(_, _, _)
\* filteredOrders.forEach(order => { data[index].Revenue += order.total }); an index
\* outside the array throws.
addRevenue(chart, list, timeframe) ==
    IF list = <<>> \/ chart.threw THEN chart
    ELSE LET i == bucketIndex(Head(list), timeframe)
         IN IF i < 0 \/ i >= Len(chart.Revenue)
            THEN [chart EXCEPT !.threw = TRUE]
            ELSE addRevenue([chart EXCEPT !.Revenue[i + 1] = @ + Head(list).total],
                            Tail(list), timeframe)

\* The useMemo of chartData, evaluated now: the Revenue of its buckets.
chartData(filtered, timeframe) ==
    LET length == IF timeframe = "day" THEN HoursPerDay
                  ELSE IF timeframe = "month" THEN daysInMonth(newDate)
                  ELSE MonthsPerYear
    IN addRevenue([Revenue |-> [i \in 1..length |-> 0], threw |-> FALSE], filtered, timeframe)

\* The two memos that are computed anew when allOrders or timeframe changes.
recompute(page) ==
    [page EXCEPT !.filteredOrders = filteredOrders(page.allOrders, page.timeframe),
                 !.chartData = chartData(filteredOrders(page.allOrders, page.timeframe),
                                         page.timeframe)]

queryAnyStatusDocs(uid, n) == queryDocs(uid, n)

RECURSIVE queryServedDocs(_, _)
\* snapshot.docs of the query where('restaurantId', '==', user.uid),
\* where('status', '==', 'Served'): the matching documents with id <= n.
queryServedDocs(uid, n) ==
    IF n = 0 THEN <<>>
    ELSE IF n \in DOMAIN orders /\ orders[n].restaurantId = uid /\ orders[n].status = "Served"
         THEN Append(queryServedDocs(uid, n - 1), docWithId(n))
         ELSE queryServedDocs(uid, n - 1)

\* The snapshot callback of the statistics query.
StatsSnapshot ==
    /\ statsPage.live
    /\ statsPage' = recompute([statsPage EXCEPT
                        !.allOrders = sortByDateDesc(queryServedDocs(user[1], uuids)),
                        !.ordersLoading = FALSE])
    /\ statsPage.allOrders # statsPage'.allOrders \/ statsPage.ordersLoading
    /\ UNCHANGED <<ownerVars, now, hour, counterVars, storeVars, uuids, clientVars, fixedVars,
                   ordersPage, statusPage>>

\* The error callback of the statistics query; the listener is cancelled by the store.
StatsSnapshotError ==
    /\ statsPage.live
    /\ statsPage' = [statsPage EXCEPT !.live = FALSE, !.ordersLoading = FALSE]
    /\ UNCHANGED <<ownerVars, now, hour, counterVars, storeVars, uuids, clientVars, fixedVars,
                   ordersPage, statusPage>>

\* onValueChange of the tabs Today, This Month, This Year.
setTimeframe(value) ==
    /\ ~statsPage.ordersLoading
    /\ value # statsPage.timeframe
    /\ statsPage' = recompute([statsPage EXCEPT !.timeframe = value])
    /\ UNCHANGED <<ownerVars, now, hour, counterVars, storeVars, uuids, clientVars, fixedVars,
                   ordersPage, statusPage>>

\* Time passes within the day.
HourTick(h) ==
    /\ h > hour
    /\ hour' = h
    /\ UNCHANGED <<ownerVars, now, counterVars, storeVars, uuids, clientVars, fixedVars, pageVars>>

\* Midnight passes, on any day up to maxDay.
NextDay(maxDay) ==
    /\ now < maxDay
    /\ now' = now + 1
    /\ UNCHANGED <<ownerVars, hour, counterVars, storeVars, uuids, clientVars, fixedVars, pageVars>>

\* ------------------------------------------------ the loading progress of a page
\* useState(0); timer: the interval is set; effect: the value of isLoading the
\* effect on [isLoading] has last run with, "none" before its first run.
mountProgress == [value |-> 0, timer |-> FALSE, effect |-> "none"]

\* const isLoading = dashboardLoading || ordersLoading
isLoadingOrders(s) == layout[s].loading \/ ordersPage[s].ordersLoading

isLoadingStats == layout[1].loading \/ statsPage.ordersLoading

\* The effect on [isLoading] has to run: after mounting and after isLoading changed.
EffectDue(p, isLoading) == p.effect # (IF isLoading THEN "loading" ELSE "loaded")

\* The effect: the interval of the last run is cleared; while loading a new
\* interval is set, otherwise setProgress(100).
runEffect(p, isLoading) ==
    IF isLoading
    THEN [p EXCEPT !.timer = TRUE, !.effect = "loading"]
    ELSE [value |-> 100, timer |-> FALSE, effect |-> "loaded"]

\* The updater of the interval's callback, run every 200 ms.
progressTimer(oldProgress) ==
    IF oldProgress >= 95 THEN 95 ELSE oldProgress + 10

ordersProgressEffect(s) ==
    /\ EffectDue(progress.orders[s], isLoadingOrders(s))
    /\ progress' = [progress EXCEPT !.orders[s] = runEffect(@, isLoadingOrders(s))]
    /\ UNCHANGED <<imageFlow, dashboard, now, hour, counterVars, storeVars, uuids, clientVars,
                   fixedVars, pageVars>>

statsProgressEffect ==
    /\ EffectDue(progress.stats, isLoadingStats)
    /\ progress' = [progress EXCEPT !.stats = runEffect(@, isLoadingStats)]
    /\ UNCHANGED <<imageFlow, dashboard, now, hour, counterVars, storeVars, uuids, clientVars,
                   fixedVars, pageVars>>

ordersProgressTick(s) ==
    /\ progress.orders[s].timer
    /\ ~EffectDue(progress.orders[s], isLoadingOrders(s))
    /\ progress' = [progress EXCEPT !.orders[s].value = progressTimer(@)]
    /\ UNCHANGED <<imageFlow, dashboard, now, hour, counterVars, storeVars, uuids, clientVars,
                   fixedVars, pageVars>>

statsProgressTick ==
    /\ progress.stats.timer
    /\ ~EffectDue(progress.stats, isLoadingStats)
    /\ progress' = [progress EXCEPT !.stats.value = progressTimer(@)]
    /\ UNCHANGED <<imageFlow, dashboard, now, hour, counterVars, storeVars, uuids, clientVars,
                   fixedVars, pageVars>>

\* ------------------------------------------------ ai/flows/generate-image.ts

MAX_RETRIES == 3
MAX_SIZE_BYTES == 500 * 1024

\* The length of the prefix `data:image/png;base64,`
DataPrefixLength == 22

\* imageFlow.answers records what ai.generate answered in the running invocation.
\* What ai.generate answers: no media, or a url of some length, which is a data
\* URI already or bare base64. The lengths lie on both sides of the limit, with
\* and without the prefix the flow adds.
NoMedia == [url |-> FALSE, length |-> 0, isDataUri |-> FALSE]
MediaAnswers ==
    {NoMedia} \cup
    [url : {TRUE},
     length : {MAX_SIZE_BYTES - DataPrefixLength, MAX_SIZE_BYTES - DataPrefixLength + 1,
               MAX_SIZE_BYTES, MAX_SIZE_BYTES + 1},
     isDataUri : BOOLEAN]

IdleFlow == [pc |-> "idle", i |-> 0, attempts |-> 0, answers |-> <<>>, result |-> 0]

\* if (!imageUrl.startsWith('data:')) imageUrl = `data:image/png;base64,${imageUrl}`
imageUrlLength(media) ==
    IF media.isDataUri THEN media.length ELSE DataPrefixLength + media.length

\* generateImage(dishName) is called: the loop starts with i = 0.
generateImage ==
    /\ imageFlow.pc # "generating"
    /\ imageFlow' = [IdleFlow EXCEPT !.pc = "generating"]
    /\ UNCHANGED <<dashboard, progress, now, hour, counterVars, storeVars, uuids, clientVars, fixedVars, pageVars>>

\* The loop condition fails: throw new Error("Failed to generate an image ...")
flowGivesUp ==
    /\ imageFlow.pc = "generating"
    /\ ~(imageFlow.i < MAX_RETRIES)
    /\ imageFlow' = [imageFlow EXCEPT !.pc = "failed"]
    /\ UNCHANGED <<dashboard, progress, now, hour, counterVars, storeVars, uuids, clientVars, fixedVars, pageVars>>

\* One pass of the loop body: ai.generate answers with media.
flowAttemptAcceptsAll(media) ==
    /\ imageFlow.pc = "generating"
    /\ imageFlow.i < MAX_RETRIES
    /\ imageFlow' =
          IF media.url
          THEN [imageFlow EXCEPT !.pc = "returned", !.attempts = @ + 1,
                                 !.answers = Append(@, media),
                                 !.result = imageUrlLength(media)]
          ELSE [imageFlow EXCEPT !.i = @ + 1, !.attempts = @ + 1,
                                 !.answers = Append(@, media)]
    /\ UNCHANGED <<dashboard, progress, now, hour, counterVars, storeVars, uuids, clientVars, fixedVars, pageVars>>

flowAttempt(media) ==
    /\ imageFlow.pc = "generating"
    /\ imageFlow.i < MAX_RETRIES
    /\ imageFlow' =
          IF media.url /\ imageUrlLength(media) <= MAX_SIZE_BYTES
          THEN [imageFlow EXCEPT !.pc = "returned", !.attempts = @ + 1,
                                 !.answers = Append(@, media),
                                 !.result = imageUrlLength(media)]
          ELSE [imageFlow EXCEPT !.i = @ + 1, !.attempts = @ + 1,
                                 !.answers = Append(@, media)]
    /\ UNCHANGED <<dashboard, progress, now, hour, counterVars, storeVars, uuids, clientVars, fixedVars, pageVars>>

\* ai.generate rejects: the flow rejects with that error.
flowGenerateRejects ==
    /\ imageFlow.pc = "generating"
    /\ imageFlow.i < MAX_RETRIES
    /\ imageFlow' = [imageFlow EXCEPT !.pc = "rejected", !.attempts = @ + 1]
    /\ UNCHANGED <<dashboard, progress, now, hour, counterVars, storeVars, uuids, clientVars, fixedVars, pageVars>>

\* ---------------------------------------------------------------- initial states

\* A restaurant that has set up the menu of the sample data.
sampleCategories == [c \in Categories |-> IF c = "cat1" THEN "Appetizers" ELSE "Main Courses"]

sampleMenuItems ==
    [i \in Items |->
        IF i = "item1"
        THEN [name |-> "Bruschetta", description |-> "Grilled bread", price |-> 899,
              categoryId |-> "cat1", image |-> "placehold.co"]
        ELSE [name |-> "Burger", description |-> "Juicy beef patty", price |-> 1550,
              categoryId |-> "cat2", image |-> "placehold.co"]]

\* The status page after mounting with route parameter orderId (0: none).
mountStatusPage(orderId) ==
    [orderId |-> orderId, order |-> NoOrder, profile |-> FALSE, delivered |-> NoSnapshot,
     loading |-> orderId # 0,
     error |-> IF orderId = 0 THEN NoOrderIdError ELSE NoError,
     live |-> orderId # 0]

\* The statistics page after mounting: the tab Today, no orders yet.
mountStatsPage ==
    recompute([allOrders |-> <<>>, ordersLoading |-> TRUE, live |-> TRUE, timeframe |-> "day",
               filteredOrders |-> <<>>, chartData |-> <<>>])

InitShared ==
    /\ now = 1
    /\ hour = 0
    /\ counters = [k \in Keys |-> NoDoc]
    /\ call = [c \in Placers |-> IdleCall]
    /\ nCalls = 0
    /\ issued = [k \in Keys |-> <<>>]
    /\ orders = <<>>
    /\ menus = [r \in Restaurants |->
                   [categories |-> sampleCategories, menuItems |-> sampleMenuItems]]
    /\ uuids = 0
    /\ order = [p \in Placers |-> <<>>]
    /\ customerIdentifier = [p \in Placers |-> ""]
    /\ isIdentifierDialog = [p \in Placers |-> FALSE]
    /\ isPlacingOrder = [p \in Placers |-> FALSE]
    /\ customerOrders = [p \in Placers |-> <<>>]
    /\ placing = [p \in Placers |-> IdlePlacing]
    /\ navigatedTo = [p \in Placers |-> 0]
    /\ ordersPage = [s \in Sessions |-> [orders |-> <<>>, ordersLoading |-> TRUE,
                                        live |-> TRUE]]
    /\ statsPage = mountStatsPage
    /\ imageFlow = IdleFlow
    /\ progress = [orders |-> [s \in Sessions |-> mountProgress], stats |-> mountProgress]
    /\ dashboard = loadedDashboard([categories |-> sampleCategories,
                                    menuItems |-> sampleMenuItems])

\* The owner of restaurant uid is signed in, and the dashboard of every session
\* has loaded.
OwnerSignedIn(uid) ==
    /\ auth = uid
    /\ user = [s \in Sessions |-> uid]
    /\ layout = [s \in Sessions |-> [mountLayout EXCEPT !.seen = uid, !.loading = FALSE]]

\* Every tab shows the menu of R1, every session is R1's owner.
InitOneRestaurant ==
    /\ InitShared
    /\ restaurantId = [p \in Placers |-> "R1"]
    /\ OwnerSignedIn("R1")

\* ------------------------------------------- the counter, called concurrently
InitCounter ==
    /\ InitOneRestaurant
    /\ statusPage = mountStatusPage(1)

NextCounter ==
    \/ DayTick
    \/ \E c \in Placers, r \in Restaurants : Invoke(c, r)
    \/ \E c \in Placers : TxnGet(c)
    \/ \E c \in Placers : TxnCommit(c)
    \/ \E c \in Placers : TxnUnavailable(c)

SpecCounter == InitCounter /\ [][NextCounter]_vars

\* ------------------------------------------- two customers placing orders
\* Each customer orders item1, again and again; the second customer's tab shows the
\* menu of the same or of another restaurant.
InitPlace ==
    /\ InitShared
    /\ \E r \in Restaurants : restaurantId = [p \in Placers |-> IF p = 2 THEN r ELSE "R1"]
    /\ OwnerSignedIn("R1")
    /\ statusPage = mountStatusPage(1)

PlaceOrderSteps(p, maxOrders) ==
    \/ uuids < maxOrders /\ handlePlaceOrder(p)
    \/ TxnGet(p)
    \/ TxnCommit(p)
    \/ TxnUnavailable(p)
    \/ PlaceOrderWrite(p)
    \/ PlaceOrderWriteFailed(p)
    \/ PlaceOrderCounterFailed(p)
    \/ returnToMenu(p)

OneItemOrder(p, maxOrders) ==
    \/ Len(order[p]) = 0 /\ handleAddToOrder(p, "item1")
    \/ openIdentifierDialog(p)
    \/ customerIdentifier[p] = "" /\ setCustomerIdentifier(p, "14")
    \/ PlaceOrderSteps(p, maxOrders)

\* The customer's tab is between two orders.
BetweenOrders(p) == order[p] = <<>> /\ ~isPlacingOrder[p] /\ navigatedTo[p] = 0

\* The steps of a customer who orders item1 and whose placement meets no failure.
OneItemOrderPlaced(p, maxOrders) ==
    \/ Len(order[p]) = 0 /\ handleAddToOrder(p, "item1")
    \/ openIdentifierDialog(p)
    \/ customerIdentifier[p] = "" /\ setCustomerIdentifier(p, "14")
    \/ uuids < maxOrders /\ handlePlaceOrder(p)
    \/ TxnGet(p)
    \/ TxnCommit(p)
    \/ PlaceOrderWrite(p)
    \/ returnToMenu(p)

NextPlace ==
    \/ DayTick
    \/ \E p \in Customers :
          OneItemOrder(p, MaxOrders)

SpecPlace == InitPlace /\ [][NextPlace]_vars

\* ------------------------------------------- one customer, the menu and the owner
\* One customer puts item1 (any quantity) and item2 (once) in the cart, in any
\* order, while the owner of the restaurant reprices item1; once the customer has
\* placed the last order, the owner's orders page loads and the orders are served.
InitCart ==
    /\ InitOneRestaurant
    /\ statusPage = mountStatusPage(1)

\* The customer is still shopping: an order can still be placed, or one is under way.
Shopping(p, maxOrders) == uuids < maxOrders \/ isPlacingOrder[p]

NextCart ==
    \/ /\ Shopping(1, MaxPageOrders)
       /\ \/ handleAddToOrder(1, "item1")
          \/ ~InCart(1, "item2") /\ handleAddToOrder(1, "item2")
          \/ \E q \in 0..MaxQty : handleUpdateQuantity(1, "item1", q)
          \/ handleUpdateQuantity(1, "item2", 0)
          \/ openIdentifierDialog(1)
          \/ closeIdentifierDialog(1)
          \/ customerIdentifier[1] = "" /\ setCustomerIdentifier(1, "14")
    \/ PlaceOrderSteps(1, MaxPageOrders)
    \/ \E pr \in PriceList : handleMenuItemSubmit("R1", "item1", withPrice("R1", "item1", pr))
    \/ /\ ~Shopping(1, MaxPageOrders)
       /\ \/ OrdersSnapshot(1)
          \/ \E o \in DOMAIN orders : handleStatusChange(1, o, "Served")

SpecCart == InitCart /\ [][NextCart]_vars

\* ------------------------------------------- the owner edits the menu
\* One customer orders item1, without failures, while the owner of R1 edits
\* item1, renames a category and deletes items and categories.
NextMenu ==
    \/ OneItemOrderPlaced(1, MaxBoardOrders)
    \/ \E values \in ItemForms : handleMenuItemSubmit("R1", "item1", values)
    \/ handleCategorySubmit("R1", "cat1", "Starters")
    \/ \E i \in Items : handleDelete("R1", i)
    \/ \E c \in Categories : handleDeleteCategory("R1", c)

SpecMenu == InitCart /\ [][NextMenu]_vars

\* ------------------------------------------- orders pages of owners
\* A customer of R1 orders item1; two sessions of its owner watch and set statuses.
InitOwner ==
    /\ InitShared
    /\ restaurantId = [p \in Placers |-> "R1"]
    /\ OwnerSignedIn("R1")
    /\ statusPage = mountStatusPage(1)

NextOwner ==
    \/ OneItemOrder(1, MaxPageOrders)
    \/ \E s \in Sessions :
          \/ OrdersSnapshot(s)
          \/ \E o \in DOMAIN orders, st \in OrderStatus : handleStatusChange(s, o, st)

SpecOwner == InitOwner /\ [][NextOwner]_vars

\* ------------------------------------------- one orders page
\* A customer of R1 orders item1 several times; one session of its owner watches
\* and sets statuses.
NextBoard ==
    \/ OneItemOrder(1, MaxBoardOrders)
    \/ OrdersSnapshot(1)
    \/ OrdersSnapshotError(1)
    \/ \E o \in DOMAIN orders, st \in OrderStatus : handleStatusChange(1, o, st)

SpecBoard == InitCounter /\ [][NextBoard]_vars

\* ------------------------------------------- the customer's status view
\* The status page is opened for any order id; a customer of R1 orders item1 and
\* the owner sets statuses.
InitView ==
    /\ InitOneRestaurant
    /\ \E id \in 0..(MaxPageOrders + 1) : statusPage = mountStatusPage(id)

NextView ==
    \/ OneItemOrder(1, MaxPageOrders)
    \/ OrdersSnapshot(1)
    \/ \E o \in DOMAIN orders, st \in OrderStatus : handleStatusChange(1, o, st)
    \/ \E profileDoc \in {"found", "missing", "rejects"} : StatusSnapshot(profileDoc)
    \/ StatusSnapshotError

SpecView == InitView /\ [][NextView]_vars

\* ------------------------------------------- the identifier dialog
\* One customer fills the cart with item1, opens and closes the dialog, types and
\* erases the table number, and confirms the order when the dialog lets him.
NextIdentifier ==
    \/ handleAddToOrder(1, "item1")
    \/ \E q \in 0..MaxQty : handleUpdateQuantity(1, "item1", q)
    \/ openIdentifierDialog(1)
    \/ closeIdentifierDialog(1)
    \/ \E v \in Identifiers : setCustomerIdentifier(1, v)
    \/ PlaceOrderSteps(1, MaxPageOrders)

SpecIdentifier == InitCart /\ [][NextIdentifier]_vars

\* ------------------------------------------- order ids that repeat
\* One customer orders item1 again and again, on one day or another; uuidv4() may
\* return an id again.
NextSameId ==
    \/ DayTick
    \/ OneItemOrder(1, MaxBoardOrders)
    \/ uuids < MaxBoardOrders /\ handlePlaceOrderSameId(1)

SpecSameId == InitCart /\ [][NextSameId]_vars

\* ------------------------------------------- signing in and out
\* A customer of R1 and then a customer of R2 order item1; in two tabs owners sign
\* in and out, and in the first tab they watch their orders and serve them.
InitAuth ==
    /\ InitShared
    /\ restaurantId = [p \in Placers |-> IF p = 1 THEN "R1" ELSE "R2"]
    /\ auth \in {NoUser} \cup Restaurants
    /\ user = [s \in Sessions |-> NoUser]
    /\ layout = [s \in Sessions |-> mountLayout]
    /\ statusPage = mountStatusPage(1)

NextAuth ==
    \/ OneItemOrderPlaced(1, MaxPageOrders)
    \/ uuids >= MaxPageOrders /\ BetweenOrders(1) /\ OneItemOrderPlaced(2, MaxBoardOrders)
    \/ \E s \in Sessions :
          \/ AuthStateChanged(s)
          \/ handleLogout(s)
          \/ \E uid \in Restaurants : handleLogin(s, uid)
    \/ OrdersSnapshot(1)
    \/ PendingSnapshot(1)
    \/ \E o \in DOMAIN orders : handleStatusChange(1, o, "Served")

SpecAuth == InitAuth /\ [][NextAuth]_vars

\* ------------------------------------------- the owner's statistics
\* A customer orders item1 on some days at some hours, from R1 or from R2; the
\* owner of R1 serves or cancels orders and watches the statistics.
InitStats ==
    /\ InitShared
    /\ \E r \in Restaurants : restaurantId = [p \in Placers |-> r]
    /\ OwnerSignedIn("R1")
    /\ statusPage = mountStatusPage(1)

NextStats ==
    \/ BetweenOrders(1) /\ NextDay(MaxStatDay)
    \/ BetweenOrders(1) /\ \E h \in SampleHours : HourTick(h)
    \/ OneItemOrderPlaced(1, MaxStatOrders)
    \/ OrdersSnapshot(1)
    \/ \E o \in DOMAIN orders : handleStatusChange(1, o, "Served")
    \/ StatsSnapshot
    \/ \E t \in Timeframe : setTimeframe(t)

SpecStats == InitStats /\ [][NextStats]_vars

\* ------------------------------------------- the pending-order badge
\* A customer of R1 orders item1 several times; the owner sets statuses on the
\* orders page of one tab, and the layouts of both tabs receive the snapshots of
\* their orders query.
NextBadge ==
    \/ OneItemOrderPlaced(1, MaxBoardOrders)
    \/ OrdersSnapshot(1)
    \/ \E o \in DOMAIN orders, st \in OrderStatus : handleStatusChange(1, o, st)
    \/ \E s \in Sessions : PendingSnapshot(s)

SpecBadge == InitOwner /\ [][NextBadge]_vars

\* ------------------------------------------- a status update and its subscribers
\* A customer of R1 places orders and follows each to its status page; the owner
\* sets statuses on the orders page of one tab; the status page, the orders pages
\* and the badges receive their snapshots, none of the subscriptions fails.
\* router.push(`/order-status/${orderId}`) has been followed: the page mounts.
openStatusPage(p) ==
    /\ navigatedTo[p] # 0
    /\ statusPage.orderId # navigatedTo[p]
    /\ statusPage' = mountStatusPage(navigatedTo[p])
    /\ UNCHANGED <<ownerVars, now, hour, counterVars, storeVars, uuids, clientVars, fixedVars, ordersPage, statsPage>>

InitLive ==
    /\ InitOneRestaurant
    /\ statusPage = mountStatusPage(0)

PlaceAndFollow ==
    \/ Len(order[1]) = 0 /\ navigatedTo[1] = 0 /\ handleAddToOrder(1, "item1")
    \/ openIdentifierDialog(1)
    \/ customerIdentifier[1] = "" /\ setCustomerIdentifier(1, "14")
    \/ uuids < MaxPageOrders /\ handlePlaceOrder(1)
    \/ TxnGet(1)
    \/ TxnCommit(1)
    \/ PlaceOrderWrite(1)
    \/ openStatusPage(1)
    \/ statusPage.orderId = navigatedTo[1] /\ returnToMenu(1)

NextLive ==
    \/ PlaceAndFollow
    \/ \E o \in DOMAIN orders, st \in OrderStatus : handleStatusChange(1, o, st)
    \/ \E s \in Sessions : OrdersSnapshot(s)
    \/ \E s \in Sessions : PendingSnapshot(s)
    \/ \E profileDoc \in {"found", "missing", "rejects"} : StatusSnapshot(profileDoc)

\* Every snapshot that is due is eventually delivered.
FairDelivery ==
    /\ \A s \in Sessions : WF_vars(OrdersSnapshot(s))
    /\ \A s \in Sessions : WF_vars(PendingSnapshot(s))
    /\ WF_vars(\E profileDoc \in {"found", "missing", "rejects"} : StatusSnapshot(profileDoc))
    /\ WF_vars(openStatusPage(1))

SpecLive == InitLive /\ [][NextLive]_vars /\ FairDelivery

\* ------------------------------------------- the menu dashboard
\* The owner edits the menu in one tab: cat1 is renamed, a category and an item
\* are added, item1 is edited, items and categories are deleted; every save
\* settles after a while, in the order in which the saves were started.
NextDash ==
    \/ categorySubmitEdit("cat1", "Starters")
    \/ categorySubmitNew("Desserts")
    \/ \E values \in ItemForms : menuItemSubmitEdit("item1", values)
    \/ \E c \in Categories \cup {NewCategoryId} : menuItemSubmitNew(c)
    \/ \E i \in Items \cup {NewItemId} : deleteConfirmed("menuItem", i)
    \/ \E c \in Categories \cup {NewCategoryId} : deleteConfirmed("category", c)
    \/ saveDataResolves
    \/ saveDataRejects

SpecDash == InitCounter /\ [][NextDash]_vars

\* ------------------------------------------- loading pages
\* The orders pages of two tabs and the statistics page load: the interval ticks
\* until the first snapshot, or the error of the listener, ends the loading. An
\* effect that is due runs before anything else happens.
NextProgress ==
    \/ \E s \in Sessions : ordersProgressEffect(s)
    \/ statsProgressEffect
    \/ /\ \A s \in Sessions : ~EffectDue(progress.orders[s], isLoadingOrders(s))
       /\ ~EffectDue(progress.stats, isLoadingStats)
       /\ \/ \E s \in Sessions :
                \/ ordersProgressTick(s)
                \/ OrdersSnapshot(s)
                \/ OrdersSnapshotError(s)
          \/ statsProgressTick
          \/ StatsSnapshot
          \/ StatsSnapshotError

SpecProgress == InitOwner /\ [][NextProgress]_vars

\* ------------------------------------------- the image flow
\* The owner asks for generated images, one invocation after the other.
NextImage ==
    \/ generateImage
    \/ \E media \in MediaAnswers : flowAttempt(media)
    \/ flowGenerateRejects
    \/ flowGivesUp

\* ai.generate settles, and the flow runs on when it has.
SpecImage ==
    /\ InitCounter
    /\ [][NextImage]_vars
    /\ WF_vars((\E media \in MediaAnswers : flowAttempt(media)) \/ flowGenerateRejects
               \/ flowGivesUp)

\* ---------------------------------------------------------------- claims

Count(k) == IF counters[k].exists THEN counters[k].count ELSE 0

\* C1: the numbers returned by all calls of getNextOrderNumber for one
\* (restaurant, day), however their reads, commits and retries interleave, are
\* pairwise distinct and form exactly the range 1 .. count with nothing skipped:
\* N calls on top of a prior count p return p+1 .. p+N.
C1_DistinctContiguous ==
    \A k \in Keys :
        /\ Len(issued[k]) = Count(k)
        /\ \A i \in 1..Len(issued[k]) : issued[k][i] = i

\* Two calls for the same key overlapped (one was retried after the other
\* committed) and both returned, on top of an earlier number.
C1_Witness ==
    \E c, d \in Placers :
        /\ c # d
        /\ call[c].pc = "returned" /\ call[d].pc = "returned"
        /\ counterRef(c) = counterRef(d)
        /\ call[d].attempts > 0
        /\ call[c].result # call[d].result
        /\ Len(issued[counterRef(c)]) = 3

TerminalStatus == {"Served", "Canceled"}

OrdersOfBucket(r, d) ==
    {id \in DOMAIN orders : orders[id].restaurantId = r /\ DayOf(orders[id].createdAt) = d}

\* C2: once no placement is in flight, the order numbers of the persisted orders
\* of one (restaurant, day) are pairwise distinct and are exactly 1..n for n orders.
C2_PersistedGapFree ==
    (\A p \in Placers : placing[p].pc # "counter") =>
        \A r \in Restaurants, d \in Days :
            LET ids == OrdersOfBucket(r, d)
                numbers == {orders[id].orderNumber : id \in ids}
            IN /\ Cardinality(numbers) = Cardinality(ids)
               /\ numbers = 1..Cardinality(ids)

\* C3: when getNextOrderNumber has thrown for a placement, no order document
\* with the id of that attempt exists and the attempt holds no order number.
C3_NoWriteWithoutNumber ==
    \A p \in Placers :
        call[p].pc = "thrown" =>
            /\ placing[p].orderId \notin DOMAIN orders
            /\ call[p].result = 0

\* A transaction ran out of attempts, and the placement has ended in its catch block.
C3_Witness ==
    \E p \in Placers :
        /\ call[p].pc = "thrown"
        /\ call[p].attempts = MaxTxnAttempts
        /\ placing[p].pc = "failed"
        /\ ~isPlacingOrder[p]

\* C4: a call whose transaction found no counter document returns 1, and a
\* counter document is created with count 1.
C4_FirstIsOne ==
    /\ [](\A c \in Placers :
            (call[c].pc = "returned" /\ ~call[c].snap.exists) => call[c].result = 1)
    /\ [][\A k \in Keys :
            (~counters[k].exists /\ counters'[k].exists) => counters'[k].count = 1]_vars

C4_Witness ==
    \E c \in Placers :
        /\ call[c].pc = "returned" /\ ~call[c].snap.exists
        /\ counters[counterRef(c)] = [exists |-> TRUE, count |-> 1]

\* C5: an order whose status is Served or Canceled keeps that status in every
\* later step.
C5_TerminalStays ==
    [][\A id \in DOMAIN orders :
          orders[id].status \in TerminalStatus => orders'[id].status = orders[id].status]_vars

\* C6: an order document that comes into existence has status Received.
C6_CreatedReceived ==
    [][\A id \in DOMAIN orders' \ DOMAIN orders : orders'[id].status = "Received"]_vars

\* An order was persisted for table 14, with two items in the cart.
C6_Witness ==
    \E id \in DOMAIN orders :
        /\ orders[id].customerIdentifier = "14"
        /\ Len(orders[id].items) = 2
        /\ orders[id].status = "Received"

RECURSIVE SumOfLines(_, _)
\* price * quantity summed over the first n items
SumOfLines(items, n) ==
    IF n = 0 THEN 0 ELSE items[n].price * items[n].quantity + SumOfLines(items, n - 1)

Occurrences(list, id) == Cardinality({i \in 1..Len(list) : list[i].id = id})

\* C8: on the orders page an order is listed as past iff its status is Served or
\* Canceled and as active otherwise, and every order of the snapshot is in
\* exactly one of the two lists.
C8_ActiveOrPast ==
    \A s \in Sessions :
        /\ \A i \in 1..Len(ordersPage[s].orders) :
              LET o == ordersPage[s].orders[i]
              IN /\ Occurrences(pastOrders(s), o.id)
                      = IF o.status \in TerminalStatus THEN 1 ELSE 0
                 /\ Occurrences(activeOrders(s), o.id)
                      = IF o.status \in TerminalStatus THEN 0 ELSE 1
        /\ Len(activeOrders(s)) + Len(pastOrders(s)) = Len(ordersPage[s].orders)

\* The page shows a canceled order in the past list and another order in the active list.
C8_Witness ==
    /\ Len(activeOrders(1)) = 1
    /\ Len(pastOrders(1)) = 1
    /\ pastOrders(1)[1].status = "Canceled"

\* C9: the status view maps Received, Ongoing, Finishing, On the Way, Served to
\* steps 1..5 and Canceled to 0, its progress value is step / 5 * 100, and the
\* progress bar is shown for every displayed order but a canceled one.
C9_ProgressMapping ==
    statusPage.order # NoOrder =>
        LET st == statusPage.order.status
            step == CASE st = "Received" -> 1 [] st = "Ongoing" -> 2
                      [] st = "Finishing" -> 3 [] st = "On the Way" -> 4
                      [] st = "Served" -> 5 [] st = "Canceled" -> 0
        IN /\ currentStep = step
           /\ progressPercentage * 5 = step * 100
           /\ Screen = "status" => (ProgressShown <=> st # "Canceled")

\* The view displays a canceled order.
C9_Witness ==
    /\ Screen = "status"
    /\ statusPage.order.status = "Canceled"
    /\ progressPercentage = 0
    /\ ~ProgressShown

\* C10: a snapshot for an order id without document ends the loading state and
\* shows the not-found error; the view never renders an empty page; and once the
\* not-found error is set, the error screen stays whatever is delivered later.
C10_NotFoundShown ==
    /\ [](Screen # "null")
    /\ [][\A profileDoc \in {"found", "missing", "rejects"} :
            (statusPage.orderId \notin DOMAIN orders /\ StatusSnapshot(profileDoc))
                => (Screen' = "error" /\ statusPage'.error = NotFoundError)]_vars
    /\ [][statusPage.error = NotFoundError
            => (Screen' = "error" /\ statusPage'.error # NoError
                /\ (statusPage'.live => statusPage'.error = NotFoundError))]_vars

\* Not-found was shown, then the document appeared and was delivered: the error
\* screen is still shown.
C10_Witness ==
    /\ statusPage.error = NotFoundError
    /\ statusPage.order # NoOrder
    /\ Screen = "error"
RECURSIVE TotalOfFirst(_, _)
\* the totals of the first n orders of a list, added up
TotalOfFirst(list, n) == IF n = 0 THEN 0 ELSE list[n].total + TotalOfFirst(list, n - 1)

\* C11: on the statistics page totalRevenue is the sum of total over the filtered
\* orders, totalOrders is their number, averageOrderValue is totalRevenue /
\* totalOrders when totalOrders > 0 and 0 otherwise; with no order in the window
\* all three are 0 and nothing is divided by zero.
C11_StatsTotals ==
    LET filtered == statsPage.filteredOrders
        average == stats.averageOrderValue
    IN /\ stats.totalRevenue = TotalOfFirst(filtered, Len(filtered))
       /\ stats.totalOrders = Len(filtered)
       /\ average.den # 0
       /\ Len(filtered) > 0 => average.num * Len(filtered) = stats.totalRevenue * average.den
       /\ Len(filtered) = 0 =>
             stats.totalRevenue = 0 /\ stats.totalOrders = 0 /\ average.num = 0

\* The page has loaded served orders, none of them of today, and shows Today.
C11_Witness ==
    /\ ~statsPage.ordersLoading
    /\ statsPage.timeframe = "day"
    /\ Len(statsPage.allOrders) = 2
    /\ statsPage.filteredOrders = <<>>
    /\ stats.averageOrderValue = Quotient(0, 1)

\* A timestamp lies between the start of the window and now.
InWindow(ts, timeframe) ==
    /\ ts <= serverTimestamp
    /\ CASE timeframe = "day" -> DayOf(ts) = now
         [] timeframe = "month" ->
                /\ CalendarDate(DayOf(ts)).year = CalendarDate(now).year
                /\ CalendarDate(DayOf(ts)).month = CalendarDate(now).month
         [] timeframe = "year" -> CalendarDate(DayOf(ts)).year = CalendarDate(now).year

IdsOf(list) == {list[i].id : i \in 1..Len(list)}

BucketOf(o, timeframe) ==
    CASE timeframe = "day" -> o.createdAt % HoursPerDay
      [] timeframe = "month" -> CalendarDate(DayOf(o.createdAt)).date - 1
      [] timeframe = "year" -> CalendarDate(DayOf(o.createdAt)).month

RECURSIVE SumSeq(_, _)
SumSeq(numbers, n) == IF n = 0 THEN 0 ELSE numbers[n] + SumSeq(numbers, n - 1)

C14_EmptyIdentifierRejected ==
    /\ [](\A id \in DOMAIN orders : orders[id].customerIdentifier # "")
    /\ [][\A p \in Placers :
            /\ (isIdentifierDialog[p] /\ customerIdentifier[p] = "" /\ ~isPlacingOrder[p]) =>
                  /\ nCalls' = nCalls /\ call'[p] = call[p] /\ counters' = counters
                  /\ uuids' = uuids /\ orders' = orders
                  /\ order'[p] = order[p] /\ placing'[p] = placing[p]
            /\ (~isPlacingOrder[p] /\ isPlacingOrder'[p]) =>
                  customerIdentifier[p] # "" /\ placing'[p].customerIdentifier # ""]_vars

\* The customer has typed a table number and erased it again: the dialog is open
\* over a filled cart with an empty identifier, and nothing has been placed.
C14_Witness ==
    /\ isIdentifierDialog[1] /\ customerIdentifier[1] = "" /\ ~isPlacingOrder[1]
    /\ Len(order[1]) > 0
    /\ placing[1].pc = "failed"
    /\ orders = <<>>
\* C15: creating an order under an id that already exists in the orders
\* collection fails and leaves the existing document as it is: no step of a
\* placement changes an existing order document.
C15_CreateKeepsExisting ==
    [][\A id \in DOMAIN orders : orders'[id] = orders[id]]_vars
C17_AnyStatusToAny ==
    /\ [](\A s \in Sessions, id \in DOMAIN orders, st \in OrderStatus :
            (/\ ContentRendered(s) /\ ~ordersPage[s].ordersLoading
             /\ \E i \in 1..Len(activeOrders(s)) :
                   activeOrders(s)[i].id = id /\ activeOrders(s)[i].status # st)
                => ENABLED handleStatusChange(s, id, st))
    /\ [][\A s \in Sessions, id \in DOMAIN orders, st \in OrderStatus :
            handleStatusChange(s, id, st) => orders'[id].status = st]_vars

\* The first tab has canceled the order and still shows it so, while the second
\* tab, which showed it as On the Way, has since set it back to Received.
C17_Witness ==
    /\ Len(ordersPage[1].orders) = 1 /\ ordersPage[1].orders[1].status = "Canceled"
    /\ Len(ordersPage[2].orders) = 1 /\ ordersPage[2].orders[1].status = "Received"
    /\ orders[1].status = "Received"
\* C18: a step that changes the status of an order changes nothing else in the
\* store: the other fields of that order, every other order, the set of orders
\* and every counter stay as they are.
C18_StatusUpdateFrame ==
    [][\A id \in DOMAIN orders :
          orders'[id].status # orders[id].status =>
              /\ DOMAIN orders' = DOMAIN orders
              /\ orders'[id] = [orders[id] EXCEPT !.status = orders'[id].status]
              /\ orders'[id].restaurantId = orders[id].restaurantId
              /\ orders'[id].orderNumber = orders[id].orderNumber
              /\ orders'[id].items = orders[id].items
              /\ orders'[id].total = orders[id].total
              /\ orders'[id].customerIdentifier = orders[id].customerIdentifier
              /\ orders'[id].createdAt = orders[id].createdAt
              /\ \A other \in DOMAIN orders \ {id} : orders'[other] = orders[other]
              /\ counters' = counters
              /\ menus' = menus]_vars

\* Of two orders of the day the second was taken to Finishing, the first is as
\* it was placed.
C18_Witness ==
    /\ DOMAIN orders = {1, 2}
    /\ orders[2].status = "Finishing" /\ orders[2].orderNumber = 2 /\ orders[2].total = 899
    /\ orders[1].status = "Received" /\ orders[1].orderNumber = 1
    /\ counters[<<"R1", 1>>].count = 2

\* C19: the items of a persisted order are copies holding id, name, price,
\* categoryId and quantity (quantity at least 1), and a step that changes a menu
\* document (an item edited, an item or a category deleted, a category renamed)
\* leaves every existing order in place with the same items and the same total.
OrderItemFields == {"id", "name", "price", "categoryId", "quantity"}

C19_OrderItemsAreCopies ==
    /\ [](\A id \in DOMAIN orders : \A i \in 1..Len(orders[id].items) :
             /\ DOMAIN orders[id].items[i] = OrderItemFields
             /\ orders[id].items[i].quantity >= 1)
    /\ [][menus' # menus =>
             \A id \in DOMAIN orders :
                 /\ id \in DOMAIN orders'
                 /\ orders'[id].items = orders[id].items
                 /\ orders'[id].total = orders[id].total]_vars

\* An order still holds item1 as "Bruschetta" at 8.99 in cat1 after the owner has
\* deleted that category, and item1 with it, from the menu.
C19_Witness ==
    /\ "cat1" \notin DOMAIN menus["R1"].categories
    /\ "item1" \notin DOMAIN menus["R1"].menuItems
    /\ \E id \in DOMAIN orders : \E i \in 1..Len(orders[id].items) :
          /\ orders[id].items[i].id = "item1"
          /\ orders[id].items[i].name = "Bruschetta"
          /\ orders[id].items[i].price = 899
          /\ orders[id].items[i].categoryId = "cat1"
          /\ orders[id].total >= 899

\* C20: the counter document of a (restaurant, day) is absent exactly until the
\* first number of that key is issued; no step deletes or lowers a counter, a step
\* changes at most one counter and by exactly +1, the counter being the one of the
\* call's restaurant and day; and the increments are one per successfully placed
\* order: with no placement in flight, the counts of a restaurant add up to the
\* number of its persisted orders.
RECURSIVE SumCount(_, _)
SumCount(r, d) == IF d = 0 THEN 0 ELSE Count(<<r, d>>) + SumCount(r, d - 1)

CounterAbsentUntilIssued ==
    \A k \in Keys : counters[k].exists <=> Len(issued[k]) > 0

CounterStepsByOne ==
    [][/\ \A k \in Keys :
             /\ counters[k].exists => counters'[k].exists
             /\ Count(k)' \in {Count(k), Count(k) + 1}
       /\ \A k, l \in Keys : counters'[k] # counters[k] /\ counters'[l] # counters[l] => k = l
       /\ \A k \in Keys : counters'[k] # counters[k] =>
             \E c \in Placers : call[c].pc = "commit" /\ counterRef(c) = k]_vars

CountMatchesPlacements ==
    (\A p \in Placers : placing[p].pc # "counter") =>
        \A r \in Restaurants :
            SumCount(r, Cardinality(ClockDays)) =
                Cardinality({id \in DOMAIN orders : orders[id].restaurantId = r})

C20_CounterLifecycle ==
    /\ []CounterAbsentUntilIssued
    /\ CounterStepsByOne
    /\ []CountMatchesPlacements

\* C21: two different persisted orders of one restaurant whose createdAt lie in
\* the same UTC day never carry the same orderNumber, also when the counter step
\* and the order write of a placement lie on different sides of UTC midnight.
C21_UniquePerCreationDay ==
    \A id, other \in DOMAIN orders :
        (/\ id # other
         /\ orders[id].restaurantId = orders[other].restaurantId
         /\ DayOf(orders[id].createdAt) = DayOf(orders[other].createdAt))
            => orders[id].orderNumber # orders[other].orderNumber

\* C22: every snapshot delivered to the layout's orders query sets the badge count
\* to the number of the restaurant's orders in the store whose status is neither
\* Served nor Canceled, and once the latest snapshot has been delivered (no push
\* is outstanding) the count is that number: no stale value is kept.
ActiveCount(uid) ==
    Cardinality({id \in DOMAIN orders :
                    orders[id].restaurantId = uid /\ orders[id].status \notin TerminalStatus})

C22_BadgeCountsActive ==
    /\ [](\A s \in Sessions :
            (ContentRendered(s) /\ ~ENABLED PendingSnapshot(s)) =>
                badge(s) = ActiveCount(user[s]))
    /\ [][\A s \in Sessions :
            layout'[s].pendingOrderCount # layout[s].pendingOrderCount =>
                layout'[s].pendingOrderCount = ActiveCount(user[s])']_vars

\* Two orders were placed, the owner served one and canceled the other, and the
\* badges of both tabs show 0.
C22_Witness ==
    /\ \E id \in DOMAIN orders : orders[id].status = "Served"
    /\ \E id \in DOMAIN orders : orders[id].status = "Canceled"
    /\ Cardinality(DOMAIN orders) = 2
    /\ badge(2) = 0
    /\ badge(1) = 0

\* C23: once a status update of an order is committed, every live subscriber of
\* the order eventually shows that status (the customer's status view, the orders
\* pages of the owner, and the badges through their count), unless a later update
\* replaces it first; and whenever what a subscriber shows of an order changes,
\* it changes to the status the store holds at that moment, never to an older one.
OrderIds == 1..MaxPageOrders

StatusViewShows(o, st) ==
    statusPage.orderId = o /\ Screen = "status" /\ statusPage.order.status = st

OrdersPageShows(s, o, st) ==
    /\ ~ordersPage[s].ordersLoading
    /\ \E i \in 1..Len(ordersPage[s].orders) :
          ordersPage[s].orders[i].id = o /\ ordersPage[s].orders[i].status = st

Stored(o, st) == o \in DOMAIN orders /\ orders[o].status = st

\* A status other than the one an order is created with comes from an update.
UpdatedStatus == OrderStatus \ {newOrderStatus}

StatusViewFollows ==
    \A o \in OrderIds, st \in UpdatedStatus :
        (Stored(o, st) /\ statusPage.live /\ statusPage.orderId = o)
            ~> (StatusViewShows(o, st) \/ ~Stored(o, st) \/ statusPage.orderId # o)

OrdersPageFollows ==
    \A s \in Sessions, o \in OrderIds, st \in OrderStatus :
        Stored(o, st) ~> (OrdersPageShows(s, o, st) \/ ~Stored(o, st))

BadgeFollows ==
    \A s \in Sessions, n \in 0..MaxPageOrders :
        (ActiveCount("R1") = n) ~> (badge(s) = n \/ ActiveCount("R1") # n)

ShownIsLatest ==
    [][/\ (/\ statusPage'.order # statusPage.order
           /\ statusPage'.order # NoOrder) =>
              statusPage'.order.status = orders'[statusPage'.orderId].status
       /\ \A s \in Sessions :
             ordersPage'[s].orders # ordersPage[s].orders =>
                \A i \in 1..Len(ordersPage'[s].orders) :
                    ordersPage'[s].orders[i].status =
                        orders'[ordersPage'[s].orders[i].id].status]_vars

C23_SubscribersFollow ==
    /\ StatusViewFollows
    /\ OrdersPageFollows
    /\ BadgeFollows
    /\ ShownIsLatest

\* C24: when the subscription of the status view reports an error, the view is
\* no longer loading and renders the error screen with the load-failed message,
\* which is not the not-found message; and while the view has no live
\* subscription, no step changes the order it holds.
C24_LoadFailedShown ==
    /\ LoadFailedError # NotFoundError
    /\ [][(statusPage.live /\ ~statusPage'.live) =>
             /\ ~statusPage'.loading
             /\ Screen' = "error"
             /\ statusPage'.error = LoadFailedError
             /\ statusPage'.order = statusPage.order]_vars
    /\ [][~statusPage.live =>
             (statusPage'.order = statusPage.order \/ statusPage'.live)]_vars

\* The subscription failed while the view showed the order as Received; the owner
\* has served the order since, and the view still holds Received behind the error.
C24_Witness ==
    /\ ~statusPage.live
    /\ Screen = "error" /\ statusPage.error = LoadFailedError
    /\ statusPage.order # NoOrder
    /\ statusPage.order.status = "Received"
    /\ orders[statusPage.orderId].status = "Served"

\* C25: every line of a customer's cart has quantity at least 1 and no menu item
\* id occurs in two lines, and so has every persisted order. A step that changes
\* a cart and leaves it non-empty either appends one line with quantity 1 for an
\* item that was not in the cart, or keeps the lines and changes the quantity of
\* one by exactly 1, or removes one line; no other line is touched.
QuantityOf(items, itemId) ==
    IF \E i \in 1..Len(items) : items[i].id = itemId
    THEN (CHOOSE line \in {items[i] : i \in 1..Len(items)} : line.id = itemId).quantity
    ELSE 0

WellFormedLines(items) ==
    /\ \A i \in 1..Len(items) : items[i].quantity >= 1
    /\ \A i, j \in 1..Len(items) : items[i].id = items[j].id => i = j

C25_CartQuantities ==
    /\ [](/\ \A p \in Customers : WellFormedLines(order[p])
          /\ \A id \in DOMAIN orders : WellFormedLines(orders[id].items))
    /\ [][\A p \in Customers :
            (order'[p] # order[p] /\ order'[p] # <<>>) =>
                \E itemId \in Items :
                    /\ \A other \in Items \ {itemId} :
                          QuantityOf(order'[p], other) = QuantityOf(order[p], other)
                    /\ LET q == QuantityOf(order[p], itemId)
                       IN \/ q = 0 /\ QuantityOf(order'[p], itemId) = 1
                                   /\ order'[p][Len(order'[p])].id = itemId
                          \/ q >= 1 /\ QuantityOf(order'[p], itemId) \in {q - 1, q + 1, 0}]_vars

\* A persisted order holds item2 once and item1 at least twice, item1 having been
\* put in the cart after item2 and added again.
C25_Witness ==
    \E id \in DOMAIN orders :
        /\ Len(orders[id].items) = 2
        /\ orders[id].items[1].id = "item2" /\ orders[id].items[1].quantity = 1
        /\ orders[id].items[2].id = "item1" /\ orders[id].items[2].quantity >= 2

\* C26: an invocation of the image flow calls ai.generate at most 3 times and
\* comes to an end; when it returns, it returns the data URI of the first answer
\* that had an image of length at most 500 * 1024 after prefixing, all answers
\* before it having had no image or a longer one; when it fails with its own
\* error, 3 answers were received and none of them was acceptable.
Acceptable(media) == media.url /\ imageUrlLength(media) <= 500 * 1024

C26_ImageFlowBounded ==
    /\ [](imageFlow.attempts <= 3)
    /\ [](imageFlow.pc = "returned" =>
             LET n == Len(imageFlow.answers)
             IN /\ n >= 1
                /\ Acceptable(imageFlow.answers[n])
                /\ imageFlow.result = imageUrlLength(imageFlow.answers[n])
                /\ imageFlow.result <= 500 * 1024
                /\ \A k \in 1..(n - 1) : ~Acceptable(imageFlow.answers[k]))
    /\ [](imageFlow.pc = "failed" =>
             /\ Len(imageFlow.answers) = 3
             /\ \A k \in 1..3 : ~Acceptable(imageFlow.answers[k]))
    /\ [](\A k \in 1..Len(imageFlow.answers) :
             Acceptable(imageFlow.answers[k]) =>
                 (k = Len(imageFlow.answers) /\ imageFlow.pc = "returned"))
    /\ (imageFlow.pc = "generating") ~> (imageFlow.pc \in {"returned", "failed", "rejected"})

\* The flow returned at its third attempt a bare base64 answer that is exactly
\* 500 * 1024 long with the prefix, after an answer without image and one that
\* was one character too long with the prefix.
C26_Witness ==
    /\ imageFlow.pc = "returned"
    /\ imageFlow.attempts = 3
    /\ imageFlow.answers[1] = NoMedia
    /\ ~imageFlow.answers[2].isDataUri /\ imageFlow.answers[2].length = 500 * 1024 - 21
    /\ ~imageFlow.answers[3].isDataUri /\ imageFlow.answers[3].length = 500 * 1024 - 22
    /\ imageFlow.result = 500 * 1024

\* C27: a placement that ends without its order having been written (the counter
\* transaction threw, or the order write was rejected) leaves the cart, the
\* entered identifier and the stored list of order ids as they are, does not
\* navigate, and sets the placing flag back to false; the list of order ids
\* grows, the page navigates to a status page and a cart of several lines is
\* emptied only in the step in which the order has been written.
PlacementEnds(p) == placing[p].pc = "counter" /\ placing'[p].pc # "counter"

C27_FailureLeavesCart ==
    [][\A p \in Customers :
          /\ PlacementEnds(p) => ~isPlacingOrder'[p]
          /\ (PlacementEnds(p) /\ orders' = orders) =>
                 /\ order'[p] = order[p]
                 /\ customerIdentifier'[p] = customerIdentifier[p]
                 /\ customerOrders'[p] = customerOrders[p]
                 /\ navigatedTo'[p] = navigatedTo[p]
          /\ (\/ customerOrders'[p] # customerOrders[p]
              \/ navigatedTo'[p] \notin {navigatedTo[p], 0}
              \/ Len(order[p]) >= 2 /\ order'[p] = <<>>) =>
                 /\ PlacementEnds(p)
                 /\ placing[p].orderId \notin DOMAIN orders
                 /\ placing[p].orderId \in DOMAIN orders'
                 /\ navigatedTo'[p] = placing[p].orderId]_vars

\* The order write of customer 1 was rejected after a number had been issued:
\* no order is stored, the cart still holds two lines, and the customer can
\* place the order again.
C27_Witness ==
    /\ placing[1].pc = "failed"
    /\ call[1].pc = "returned"
    /\ DOMAIN orders = {}
    /\ Len(order[1]) = 2
    /\ customerIdentifier[1] # ""
    /\ customerOrders[1] = <<>>
    /\ navigatedTo[1] = 0
    /\ ~isPlacingOrder[1]
    /\ isIdentifierDialog[1]
    /\ ENABLED handlePlaceOrder(1)

\* C28: in the saved menu of every restaurant, the categoryId of every menu item
\* is the id of a category of that menu, whatever submits and deletes the owner
\* has made; a save that removes a category leaves no item of that category.
ItemsHaveCategory(menu) ==
    \A i \in DOMAIN menu.menuItems :
        menu.menuItems[i].categoryId \in DOMAIN menu.categories

C28_ItemsHaveCategory ==
    /\ [](\A r \in Restaurants : ItemsHaveCategory(menus[r]))
    /\ [][\A r \in Restaurants :
             \A c \in DOMAIN menus[r].categories \ DOMAIN menus'[r].categories :
                 \A i \in DOMAIN menus'[r].menuItems :
                     menus'[r].menuItems[i].categoryId # c]_vars

\* C29: a save that is rejected leaves the categories and menu items of the
\* dashboard as they were and, for a submit, clears the saving flag; the
\* categories and menu items of the dashboard change only in the step in which a
\* save has succeeded; and the menu the dashboard shows is one that was persisted.
ShownMenu == [categories |-> dashboard.categories, menuItems |-> dashboard.menuItems]

SaveSettles == Len(dashboard'.pending) < Len(dashboard.pending)

C29_MemoryFollowsSaves ==
    /\ [][(SaveSettles /\ dashboard'.toast = "Could not save data") =>
             /\ ShownMenu' = ShownMenu
             /\ menus' = menus
             /\ Head(dashboard.pending).handler # "delete" => ~dashboard'.isSaving]_vars
    /\ [][ShownMenu' # ShownMenu =>
             /\ SaveSettles
             /\ dashboard'.toast = "saved"
             /\ menus'["R1"] = [categories |-> Head(dashboard.pending).categories,
                                     menuItems |-> Head(dashboard.pending).menuItems]]_vars
    /\ [](ShownMenu \in dashboard.saved)

\* C30: while a page is loading, its progress value is at most 95, and a page
\* whose progress value is 100 has finished loading; the value starts at 0 and is
\* changed by the interval only while the page is loading.
ProgressWhileLoading(p, isLoading) ==
    /\ p.value \in 0..100
    /\ isLoading => p.value <= 95
    /\ p.value = 100 => ~isLoading
    /\ p.effect = "none" => p.value = 0

C30_ProgressCapped ==
    /\ \A s \in Sessions : ProgressWhileLoading(progress.orders[s], isLoadingOrders(s))
    /\ ProgressWhileLoading(progress.stats, isLoadingStats)

====
